---- MODULE Spec2Model ----
(***************************************************************************)
(* The remote shell session of src/webui/routes/terminal.py: the handler   *)
(* terminal_websocket (permission gate, pty.fork, teardown) and the loop   *)
(* _bridge_pty_to_websocket, as a state machine whose steps are the        *)
(* handler's system calls and channel calls, interleaved with the shell    *)
(* (the child process on the slave side of the pty) and the remote peer.   *)
(* Spec has the full traffic of one session, DialogueSpec every kind of    *)
(* inbound frame with little shell output, OutputSpec all the shell output *)
(* with one kind of frame, FairSpec fair handler steps, PairSpec two       *)
(* sessions in one server process.  ConfigSpec is the stored configuration *)
(* of src/webui/config.py and auth.py, with FirstRunSpec and UpdateSpec    *)
(* for concurrent requests on it; EmulatorSpec and EmulatorFairSpec are    *)
(* the vehicle emulator of src/webui/services/emulator.py, MqttSpec the    *)
(* connection management of src/webui/services/mqtt.py.                    *)
(*                                                                         *)
(* Bytes and characters are integers: a byte is 0..255, a character is its *)
(* Unicode code point.                                                     *)
(***************************************************************************)
EXTENDS Integers, Sequences, FiniteSets, TLC

\* ------------------------------------------------------------------ bounds
\* Total number of bytes the shell writes to the terminal in one session.
MaxShellBytes == 3
\* Number of frames the peer sends in one session.
MaxInbound == 2
\* The size of one os.read of the terminal (4096 in the code), scaled down.
ReadSize == 2
\* The same two totals in the specification the progress claims are
\* checked under, where the content of the traffic decides nothing.
ProgressShellBytes == 1
ProgressInbound == 2

\* ------------------------------------------------------------- sequences
Take(s, n) == SubSeq(s, 1, IF n < Len(s) THEN n ELSE Len(s))
Drop(s, n) == SubSeq(s, (IF n < Len(s) THEN n ELSE Len(s)) + 1, Len(s))
IsPrefix(s, t) == Len(s) <= Len(t) /\ SubSeq(t, 1, Len(s)) = s

\* ------------------------------------------------------------------ UTF-8
\* U+FFFD, what errors="replace" puts for an undecodable byte.
Replacement == 65533

\* bytes.decode("utf-8", errors="replace") on sequences of one- and
\* two-byte forms: an ASCII byte is its character, a lead byte 0xC2..0xDF
\* followed by a continuation byte 0x80..0xBF is one character, any other
\* byte is replaced by U+FFFD.
RECURSIVE Utf8Decode(_)
Utf8Decode(b) ==
    IF b = <<>> THEN <<>>
    ELSE IF b[1] < 128 THEN <<b[1]>> \o Utf8Decode(Tail(b))
    ELSE IF /\ b[1] \in 194..223
            /\ Len(b) >= 2
            /\ b[2] \in 128..191
         THEN <<(b[1] - 192) * 64 + (b[2] - 128)>> \o Utf8Decode(Tail(Tail(b)))
    ELSE <<Replacement>> \o Utf8Decode(Tail(b))

\* str.encode("utf-8") for characters below U+0800.
RECURSIVE Utf8Encode(_)
Utf8Encode(s) ==
    IF s = <<>> THEN <<>>
    ELSE IF s[1] < 128 THEN <<s[1]>> \o Utf8Encode(Tail(s))
    ELSE <<192 + (s[1] \div 64), 128 + (s[1] % 64)>> \o Utf8Encode(Tail(s))

\* ------------------------------------------------------------------- JSON
\* json.loads on the subset of JSON the modelled frames use: one object
\* whose members are "key":value with string or integer values, no white
\* space, no escapes, no nesting.  Every text frame of Frames below that starts
\* with "{" is either in this subset or is rejected by json.loads too.
\* A value is [k, s, n]: a string (k = "str", its characters s), an integer
\* (k = "int", its value n) or absent (k = "none").
JStr(s) == [k |-> "str", s |-> s, n |-> 0]
JInt(n) == [k |-> "int", s |-> <<>>, n |-> n]
JNone == [k |-> "none", s |-> <<>>, n |-> 0]
JFail == [ok |-> FALSE, val |-> JNone, next |-> 0]

\* The index of the first '"' at or after i, 0 when there is none.
RECURSIVE FindQuote(_, _)
FindQuote(s, i) ==
    IF i > Len(s) THEN 0
    ELSE IF s[i] = 34 THEN i
    ELSE FindQuote(s, i + 1)

\* The first index at or after i that holds no digit.
RECURSIVE DigitsEnd(_, _)
DigitsEnd(s, i) ==
    IF i <= Len(s) /\ s[i] \in 48..57 THEN DigitsEnd(s, i + 1) ELSE i

RECURSIVE DigitsValue(_, _, _, _)
DigitsValue(s, i, j, acc) ==
    IF i >= j THEN acc ELSE DigitsValue(s, i + 1, j, acc * 10 + (s[i] - 48))

\* One string or integer starting at s[i]: [ok, val, next].
ParseValue(s, i) ==
    IF i > Len(s) THEN JFail
    ELSE IF s[i] = 34
    THEN LET j == FindQuote(s, i + 1)
         IN  IF j = 0 THEN JFail
             ELSE [ok |-> TRUE, val |-> JStr(SubSeq(s, i + 1, j - 1)), next |-> j + 1]
    ELSE LET neg == s[i] = 45
             d == IF neg THEN i + 1 ELSE i
             e == DigitsEnd(s, d)
             v == DigitsValue(s, d, e, 0)
         IN  IF e = d \/ (e - d > 1 /\ s[d] = 48) THEN JFail
             ELSE [ok |-> TRUE, val |-> JInt(IF neg THEN 0 - v ELSE v), next |-> e]

\* The members of an object from s[i] to the closing "}" that ends s.
RECURSIVE ParseMembers(_, _, _)
ParseMembers(s, i, obj) ==
    LET key == ParseValue(s, i)
    IN  IF ~key.ok \/ key.val.k # "str" THEN [ok |-> FALSE, obj |-> <<>>]
        ELSE IF key.next > Len(s) \/ s[key.next] # 58 THEN [ok |-> FALSE, obj |-> <<>>]
        ELSE LET v == ParseValue(s, key.next + 1)
                 obj2 == Append(obj, <<key.val.s, v.val>>)
             IN  IF ~v.ok \/ v.next > Len(s) THEN [ok |-> FALSE, obj |-> <<>>]
                 ELSE IF s[v.next] = 44 THEN ParseMembers(s, v.next + 1, obj2)
                 ELSE IF s[v.next] = 125 /\ v.next = Len(s) THEN [ok |-> TRUE, obj |-> obj2]
                 ELSE [ok |-> FALSE, obj |-> <<>>]

\* json.loads(msg) for a msg that starts with "{": ok = FALSE is
\* json.JSONDecodeError, otherwise obj lists the members in order.
JsonLoads(s) ==
    IF Len(s) < 2 \/ s[1] # 123 THEN [ok |-> FALSE, obj |-> <<>>]
    ELSE IF s[2] = 125 THEN [ok |-> Len(s) = 2, obj |-> <<>>]
    ELSE ParseMembers(s, 2, <<>>)

\* dict.get(key, default): the last member named key wins, as in Python.
RECURSIVE DictGet(_, _, _)
DictGet(obj, key, default) ==
    IF obj = <<>> THEN default
    ELSE IF obj[Len(obj)][1] = key THEN obj[Len(obj)][2]
    ELSE DictGet(SubSeq(obj, 1, Len(obj) - 1), key, default)

\* ------------------------------------------------------------ the frames
StrType == <<116, 121, 112, 101>>                \* type
StrResize == <<114, 101, 115, 105, 122, 101>>    \* resize
StrRows == <<114, 111, 119, 115>>                \* rows
StrCols == <<99, 111, 108, 115>>                 \* cols

TextFrame(body) == [kind |-> "text", body |-> body]
BinFrame(body) == [kind |-> "bytes", body |-> body]

\* the one character U+00E9, two bytes in UTF-8
FrameEAcute == TextFrame(<<233>>)
\* {not valid json
FrameNotJson == TextFrame(<<123, 110, 111, 116, 32, 118, 97, 108, 105, 100, 32,
                            106, 115, 111, 110>>)
\* {"type":"resize","rows":40,"cols":100}
FrameResize == TextFrame(<<123, 34, 116, 121, 112, 101, 34, 58, 34, 114, 101, 115,
                           105, 122, 101, 34, 44, 34, 114, 111, 119, 115, 34, 58,
                           52, 48, 44, 34, 99, 111, 108, 115, 34, 58, 49, 48, 48,
                           125>>)
\* {"type":"resize","rows":-1,"cols":80}
FrameResizeNeg == TextFrame(<<123, 34, 116, 121, 112, 101, 34, 58, 34, 114, 101,
                              115, 105, 122, 101, 34, 44, 34, 114, 111, 119, 115,
                              34, 58, 45, 49, 44, 34, 99, 111, 108, 115, 34, 58,
                              56, 48, 125>>)
\* {"type":"ping"}
FramePing == TextFrame(<<123, 34, 116, 121, 112, 101, 34, 58, 34, 112, 105, 110,
                         103, 34, 125>>)
\* the bytes 7B 7D ("{}") sent as a binary frame
FrameBinBrace == BinFrame(<<123, 125>>)

\* What the peer may send.
Frames == {FrameEAcute, FrameNotJson, FrameResize, FrameResizeNeg, FramePing,
           FrameBinBrace}

\* -------------------------------------------------------- the dispatch
StartsWithBrace(s) == Len(s) > 0 /\ s[1] = 123

DoWrite(data) == [act |-> "write", data |-> data, rows |-> JNone, cols |-> JNone]
DoResize(rows, cols) == [act |-> "resize", data |-> <<>>, rows |-> rows, cols |-> cols]
DoNothing == [act |-> "none", data |-> <<>>, rows |-> JNone, cols |-> JNone]

\* A dispatch that drops a text frame json.loads rejects.
DispatchDropsBadJson(msg) ==
    IF msg.kind = "text"
    THEN IF StartsWithBrace(msg.body)
         THEN LET r == JsonLoads(msg.body)
              IN  IF ~r.ok THEN DoNothing
                  ELSE IF DictGet(r.obj, StrType, JNone) = JStr(StrResize)
                  THEN DoResize(DictGet(r.obj, StrRows, JInt(24)),
                                DictGet(r.obj, StrCols, JInt(80)))
                  ELSE DoNothing
         ELSE DoWrite(Utf8Encode(msg.body))
    ELSE DoWrite(msg.body)

\* What the loop does with a message ws.receive returned: a call of
\* _resize_pty, one os.write of the terminal handle, or nothing.
Dispatch(msg) ==
    IF msg.kind = "text"
    THEN IF StartsWithBrace(msg.body)
         THEN LET r == JsonLoads(msg.body)
              IN  IF ~r.ok THEN DoWrite(Utf8Encode(msg.body))
                  ELSE IF DictGet(r.obj, StrType, JNone) = JStr(StrResize)
                  THEN DoResize(DictGet(r.obj, StrRows, JInt(24)),
                                DictGet(r.obj, StrCols, JInt(80)))
                  ELSE DoNothing
         ELSE DoWrite(Utf8Encode(msg.body))
    ELSE DoWrite(msg.body)

\* struct.pack("HHHH", rows, cols, 0, 0) succeeds when both are integers
\* that fit an unsigned short; otherwise it raises struct.error.
StructPackOk(rows, cols) ==
    /\ rows.k = "int" /\ rows.n \in 0..65535
    /\ cols.k = "int" /\ cols.n \in 0..65535

\* A _resize_pty that packs cols before rows.
ResizePtySwapped(rows, cols) ==
    IF StructPackOk(rows, cols) THEN << <<cols.n, rows.n>> >> ELSE <<>>

\* The window-size updates _resize_pty(fd, rows, cols) issues: one ioctl
\* when the pack succeeds, none when it raises (the error is logged).
ResizePty(rows, cols) ==
    IF StructPackOk(rows, cols) THEN << <<rows.n, cols.n>> >> ELSE <<>>

\* A _resize_pty that swallows the error without a log line.
ResizeNotLogged(rows, cols, ioctl) == 0

\* fcntl.ioctl(fd, termios.TIOCSWINSZ, size) returns, or raises OSError.
IoctlOutcomes == {"ok", "error"}

\* Lines 162-163: the lines _resize_pty logs, one when struct.pack or the
\* ioctl raised.
ResizeLogged(rows, cols, ioctl) ==
    IF StructPackOk(rows, cols) /\ ioctl = "ok" THEN 0 ELSE 1

\* ------------------------------------------------------------------ state
VARIABLES
    configured,    \* a password hash is stored: what is_configured() returns
    recvContract,  \* how ws.receive reports a timeout and a closed channel
    pc,            \* where the handler terminal_websocket is
    gate,          \* the answer terminal_allowed() gave this session
    spawnCount,    \* calls of pty.fork
    child,         \* the shell process: none, running, zombie, reaped
    fd,            \* master_fd: none, open, closed
    rlist,         \* master_fd was in the rlist of the last select
    shellWritten,  \* every byte the shell wrote to the terminal, in order
    ptyOut,        \* the bytes of it not yet read from master_fd
    writeCalls,    \* the data of every os.write(master_fd, ...) call, in order
    ptyIn,         \* the bytes those calls put into the terminal, in order
    resizeCalls,   \* the TIOCSWINSZ ioctls issued, <<rows, cols>> each
    wsIn,          \* frames the peer sent that ws.receive has not returned
    nSent,         \* how many frames the peer has sent
    wsOut,         \* what the server did on the channel, in order
    peerClosed,    \* the peer closed the channel
    exitVia,       \* why the handler left the loop or never entered it
    childProc,     \* where the forked child process is in the handler's code
    teardown,      \* the finally block: its runs, os.close and os.waitpid calls
    resizeErrors,  \* "Failed to resize pty" lines logged by _resize_pty
    sess,          \* two concurrent handlers: each one's pc, master_fd, pid
    fdTable,       \* the server's descriptors: whose pty each one is open on
    ptys,          \* each pty: output waiting, bytes and sizes it got, its shell
    chans,         \* each channel: the frames sent on it, frames waiting, closed
    keyFile,       \* /etc/phev2mqtt-webui/secret.key: the key in it, if any
    configFile,    \* /etc/phev2mqtt-webui/config.json: exists, its secrets
    lastCall,      \* the last call into auth.py and what it returned
    configCalls,   \* how many such calls there have been
    emuRunning,    \* emulator._running
    emuVin,        \* emulator._vin
    stopEvent,     \* emulator._stop_event is set
    cycle,         \* the mqtt-emulator threads: position, locals, tick
    lastEmuCall,   \* the last call of enable or disable and what it returned
    mqttStop,      \* mqtt._stop_event is set
    client,        \* mqtt._client is not None
    loop_running,  \* mqtt._loop_running
    connected,     \* mqtt._state["connected"]
    link,          \* the paho client's connection: down, pending, up
    reconnect,     \* the mqtt-reconnect threads: position, backoff, last sleep
    lastMqttCall,  \* the last call of connect or disconnect and what it returned
    ssh_enabled,   \* the "ssh_enabled" field of config.json
    requests,      \* the concurrent requests: call, position, local copies
    authLock,      \* the request holding auth._setup_lock, 0 for none
    appLock        \* the request holding app._setup_lock, 0 for none

\* The state of the two-session specification, untouched by the steps of
\* the one session above it.
pairVars == <<sess, fdTable, ptys, chans>>

\* The state of the stored configuration.
cfgVars == <<keyFile, configFile, lastCall, configCalls>>

\* The state of the vehicle emulator.
emuVars == <<emuRunning, emuVin, stopEvent, cycle, lastEmuCall>>

\* The state of the MQTT connection management.
mqttVars == <<mqttStop, client, loop_running, connected, link, reconnect,
              lastMqttCall>>

\* The concurrent requests on the stored configuration.
reqVars == <<ssh_enabled, requests, authLock, appLock>>

\* What no step of the one terminal session touches.
otherVars == <<pairVars, cfgVars, emuVars, mqttVars, reqVars>>

vars == <<configured, recvContract, pc, gate, spawnCount, child, fd, rlist,
          shellWritten, ptyOut, writeCalls, ptyIn, resizeCalls, wsIn, nSent,
          wsOut, peerClosed, exitVia, childProc, teardown, resizeErrors,
          pairVars, cfgVars, emuVars, mqttVars, reqVars>>

\* The handler's positions: start, the refusal branch, fork, setnb (the
\* bridge's set-up), the four positions of the loop, except, the two of the
\* finally block, and done; raised is an exception that left the handler
\* (only before the try block).
ActivePcs == {"waitpid", "select", "read", "recv"}
ClosingPcs == {"close_fd", "reap"}

\* A frame sent on the channel: shell output (op = "data", its characters),
\* one of the two refusal lines, the "Terminal error" line of the parent
\* ("error") or of the forked child ("child_error"), or the close.
Sent(op, data) == [op |-> op, data |-> data]

\* What the modelled shell writes in one write: "a", or the two bytes of
\* U+00E9.  Its output is valid UTF-8 throughout.
ShellWrites == {<<97>>, <<195, 169>>}

\* The free room of the terminal's input queue at the time of an os.write
\* on the non-blocking master_fd: none, one byte, or more than any frame.
PtyRooms == {0, 1, 64}

\* ------------------------------------------- two sessions in one server
\* Two connections to /ws/terminal, each served by its own call of
\* terminal_websocket in the one server process.  master_fd, pid and ws are
\* locals and arguments of each call; what the calls share is the process:
\* its descriptor table, in which pty.fork takes the lowest free number and
\* os.close frees it again, and its children.

\* Bytes the two shells write and frames the two peers send, all together.
PairTraffic == 3

Sessions == {"A", "B"}

\* master_fd = None (line 42).
NoFd == 0

\* The descriptor numbers pty.fork can return in the server process.
FdNumbers == {5, 6}

\* What tells the two sessions' traffic apart: shell A writes "A", shell B
\* "B"; peer A types "a" and asks for 40 rows, peer B types "b" and asks
\* for 41.
ShellByte(s) == IF s = "A" THEN 65 ELSE 66

PeerText(s) == TextFrame(IF s = "A" THEN <<97>> ELSE <<98>>)

PeerResize(s) ==
    IF s = "A" THEN FrameResize
    ELSE TextFrame([FrameResize.body EXCEPT ![26] = 49])

PeerFrames(s) == {PeerText(s), PeerResize(s)}

\* What the frames of peer s put into a terminal: the byte of its text, the
\* <<rows, cols>> of its resize.
PeerByte(s) == IF s = "A" THEN 97 ELSE 98

PeerWinsize(s) == IF s = "A" THEN <<40, 100>> ELSE <<41, 100>>

\* A handler that keeps the descriptor in one place for all sessions.
MasterFdShared(s) == sess["A"].master_fd

\* master_fd as the handler of session s holds it: its own local.
MasterFd(s) == sess[s].master_fd

SeqRange(q) == {q[i] : i \in 1..Len(q)}

\* The pty a descriptor number is open on, for the operating system that
\* is handed the number; "free" for a number that is not open (EBADF).
PtyAt(n) == IF n \in FdNumbers THEN fdTable[n] ELSE "free"

\* The number pty.fork returns: the lowest one not open.
LowestFree ==
    CHOOSE n \in FdNumbers :
        /\ fdTable[n] = "free"
        /\ \A m \in FdNumbers : fdTable[m] = "free" => n <= m

\* pid = None (line 43).
NoPid == 0

\* The process ids pty.fork can return in the server process.  An id is
\* held until its process has been waited for; the kernel hands out an id
\* that no process holds, here the lowest one, so that an id that has been
\* freed is the next one handed out.
PidNumbers == {100, 101}

\* The shell that holds process id n as a child of the server: running, or
\* exited and not yet waited for; "none" when no child holds n (ECHILD).
ChildAt(n) ==
    IF \E q \in Sessions : ptys[q].pid = n /\ ptys[q].shell \in {"running", "zombie"}
    THEN CHOOSE q \in Sessions :
             ptys[q].pid = n /\ ptys[q].shell \in {"running", "zombie"}
    ELSE "none"

LowestFreePid ==
    CHOOSE n \in PidNumbers :
        /\ ChildAt(n) = "none"
        /\ \A m \in PidNumbers : ChildAt(m) = "none" => n <= m

\* os.waitpid(n, os.WNOHANG) called by the handler of session s: the process
\* table after it.  A child that has exited is reaped, whoever called.
WaitPidNoHang(s, n) ==
    LET q == ChildAt(n)
    IN  IF q # "none" /\ ptys[q].shell = "zombie"
        THEN [ptys EXCEPT ![q].shell = "reaped",
                          ![q].reapedBy = @ \cup {s}]
        ELSE ptys

PairInit ==
    /\ sess = [s \in Sessions |->
                 [pc |-> "start", master_fd |-> NoFd, pid |-> NoPid]]
    /\ fdTable = [n \in FdNumbers |-> "free"]
    /\ ptys = [s \in Sessions |->
                 [out |-> <<>>, written |-> 0, inp |-> {}, win |-> {},
                  shell |-> "none", closedBy |-> {},
                  pid |-> NoPid, reapedBy |-> {}]]
    /\ chans = [s \in Sessions |->
                  [out |-> {}, inq |-> <<>>, nSent |-> 0, closed |-> FALSE]]

\* ------------------------------------------- the stored configuration
\* config.py keeps the configuration in two files: secret.key, the Fernet
\* key, and config.json, whose "secrets" hold values encrypted under it.

\* Calls into auth.py in one run of the configuration's specification.
MaxConfigCalls == 4

\* No file at KEY_PATH.
NoKey == 0

\* The key in a key file that was there before the server started.
StoredKey == 1

\* The key Fernet.generate_key() makes when generate_key writes the file.
FreshKey == 2

\* No "webui_password" among the secrets of config.json.
NoSecret == [key |-> NoKey, hash |-> ""]

\* fernet.encrypt under key k, and fernet.decrypt, which raises InvalidToken
\* for a token made under another key.
Encrypt(k, h) == [key |-> k, hash |-> h]

Decrypt(k, token) == IF token.key = k THEN token.hash ELSE "InvalidToken"

\* len(password) < 8 refuses a password (auth.py lines 43 and 78).
MinPasswordLen == 8

\* Passwords a request can submit: their length and their bcrypt hash.
Passwords == {[len |-> 7, hash |-> "hash7"],
              [len |-> 8, hash |-> "hash8"],
              [len |-> 9, hash |-> "hash9"]}

\* config.py lines 59-66, 44-56: _load_key returns the key in the key file
\* and, when there is no key file, makes one first: the key in the file
\* after the call, which is also the key returned.
LoadKey(kf) == IF kf = NoKey THEN FreshKey ELSE kf

\* config.py lines 74-91 and 134: load_config().get("secrets", {}).get(key);
\* the defaults, with no secrets, when there is no config.json.
StoredSecret(cf) == IF cf.exists THEN cf.webui_password ELSE NoSecret

\* config.py lines 128-142: get_secret("webui_password") with key file kf
\* and config file cf: "" for no secret, the decrypted value, or
\* RuntimeError when the token does not decrypt under the key.
GetSecret(kf, cf) ==
    IF StoredSecret(cf) = NoSecret THEN ""
    ELSE IF Decrypt(LoadKey(kf), StoredSecret(cf)) = "InvalidToken"
    THEN "RuntimeError"
    ELSE Decrypt(LoadKey(kf), StoredSecret(cf))

\* config.py lines 157-160: is_configured(): bool(get_secret(...)), or the
\* exception get_secret raised.
IsConfigured(kf, cf) ==
    IF GetSecret(kf, cf) = "RuntimeError" THEN "raise"
    ELSE IF GetSecret(kf, cf) # "" THEN "true" ELSE "false"

\* The files as the server can find them when it starts: with or without a
\* key file, with no config.json, one without a password, or one with a
\* password hash encrypted under the stored key.
ConfigInit ==
    /\ keyFile \in {NoKey, StoredKey}
    /\ configFile \in {[exists |-> FALSE, webui_password |-> NoSecret],
                       [exists |-> TRUE, webui_password |-> NoSecret],
                       [exists |-> TRUE,
                        webui_password |-> Encrypt(StoredKey, "hash8")]}
    /\ lastCall = [op |-> "none", result |-> "none"]
    /\ configCalls = 0

\* A fresh installation: neither file exists.
ConfigFresh ==
    /\ keyFile = NoKey
    /\ configFile = [exists |-> FALSE, webui_password |-> NoSecret]
    /\ lastCall = [op |-> "none", result |-> "none"]
    /\ configCalls = 0

\* Requests that run concurrently in one run.
MaxRequests == 3

Requests == 1..MaxRequests

\* The key Fernet.generate_key() makes in request r: every call makes
\* another key (config.py line 52).
FreshKeyOf(r) == FreshKey + r

\* What a request holds before load_config has returned.
NoConfig == [exists |-> FALSE, webui_password |-> NoSecret,
             ssh_enabled |-> FALSE]

\* No password among a request's arguments.
NoPassword == [len |-> 0, hash |-> ""]

\* A request that has not started.
IdleRequest == [op |-> "none", pc |-> "idle", phase |-> "none",
                password |-> NoPassword, old |-> NoPassword,
                value |-> FALSE, key |-> NoKey, config |-> NoConfig,
                result |-> "none", first_run |-> "none"]

\* No request has started; "ssh_enabled" has its default (config.py
\* line 32).
RequestInit ==
    /\ ssh_enabled = FALSE
    /\ requests = [r \in Requests |-> IdleRequest]
    /\ authLock = 0
    /\ appLock = 0

\* ------------------------------------------------ the vehicle emulator
\* services/emulator.py: enable and disable, called by the request handlers
\* of the server's threads, and the cycle threads that enable starts.

\* Cycle threads that enable() starts in one run.
MaxCycleThreads == 2

CycleThreads == 1..MaxCycleThreads

\* The VINs a request passes to enable(); "" is the missing one.
Vins == {"", "VIN1"}

\* The tick counts that publish different things: topic and payload depend
\* on tick % 2 and (tick // 2) % 2 (lines 72-77).
TickPeriod == 4

\* Module state at import (lines 12-17): not running, no VIN, the event
\* clear, no thread.
EmuInit ==
    /\ emuRunning = FALSE
    /\ emuVin = ""
    /\ stopEvent = FALSE
    /\ cycle = [t \in CycleThreads |->
                  [pc |-> "unborn", vin |-> "", running |-> FALSE, tick |-> 0]]
    /\ lastEmuCall = [op |-> "none", arg |-> "", result |-> FALSE]

\* --------------------------------------------------- the MQTT connection
\* services/mqtt.py: connect and disconnect, called by request handlers,
\* the mqtt-reconnect thread that connect starts, and the paho client with
\* its network loop, which calls _on_connect and _on_disconnect.

\* Reconnect threads that connect() starts in one run.
MaxReconnectThreads == 2

ReconnectThreads == 1..MaxReconnectThreads

\* Line 87: backoff = 1.0, also after a successful attempt and while
\* connected (lines 92, 102).
BackoffStart == 1

\* Line 106: the cap of min(backoff * 2.0, 60.0).
BackoffCap == 60

\* Module state at import (lines 13-25): the event clear, no thread, no
\* client, the network loop not running, not connected.
MqttInit ==
    /\ mqttStop = FALSE
    /\ client = FALSE
    /\ loop_running = FALSE
    /\ connected = FALSE
    /\ link = "down"
    /\ reconnect = [t \in ReconnectThreads |->
                      [pc |-> "unborn", backoff |-> BackoffStart]]
    /\ lastMqttCall = [op |-> "none", result |-> FALSE]

\* ------------------------------------------------------------ the start
SoloInit ==
    /\ configured \in BOOLEAN
    /\ recvContract \in {"none_is_closed", "none_is_timeout"}
    /\ pc = "start"
    /\ gate = "unchecked"
    /\ spawnCount = 0
    /\ child = "none"
    /\ fd = "none"
    /\ rlist = FALSE
    /\ shellWritten = <<>>
    /\ ptyOut = <<>>
    /\ writeCalls = <<>>
    /\ ptyIn = <<>>
    /\ resizeCalls = <<>>
    /\ wsIn = <<>>
    /\ nSent = 0
    /\ wsOut = <<>>
    /\ peerClosed = FALSE
    /\ exitVia = "none"
    /\ childProc = "none"
    /\ teardown = [runs |-> 0, closes |-> 0, reaps |-> 0, errors |-> 0]
    /\ resizeErrors = 0

Init ==
    /\ SoloInit
    /\ PairInit
    /\ ConfigFresh
    /\ EmuInit
    /\ MqttInit
    /\ RequestInit

\* ------------------------------------------------ the handler, step by step
\* A handler that goes on to pty.fork whatever the gate answered.
GateBranchIgnoresGate(allowed) == "fork"

\* if not terminal_allowed(): where the handler goes on the gate's answer.
GateBranch(allowed) == IF allowed THEN "fork" ELSE "refuse1"

\* Line 36: the one call of terminal_allowed().
CheckPermission ==
    /\ pc = "start"
    /\ gate' = IF configured THEN "allowed" ELSE "denied"
    /\ exitVia' = IF configured THEN exitVia ELSE "denied"
    /\ pc' = GateBranch(configured)
    /\ UNCHANGED otherVars
    /\ UNCHANGED <<configured, recvContract, spawnCount, child, fd, rlist,
                   shellWritten, ptyOut, writeCalls, ptyIn, resizeCalls, wsIn,
                   nSent, wsOut, peerClosed,
                   childProc, teardown, resizeErrors>>

\* Lines 37-38: the two refusal lines.  ws.send on a channel the peer has
\* closed raises, and here nothing catches it.
RefuseSend ==
    /\ pc \in {"refuse1", "refuse2"}
    /\ IF peerClosed
       THEN /\ pc' = "raised"
            /\ wsOut' = wsOut
       ELSE /\ wsOut' = Append(wsOut, Sent(pc, <<>>))
            /\ pc' = IF pc = "refuse1" THEN "refuse2" ELSE "refuse_close"
    /\ UNCHANGED otherVars
    /\ UNCHANGED <<configured, recvContract, gate, spawnCount, child, fd,
                   rlist, shellWritten, ptyOut, writeCalls, ptyIn,
                   resizeCalls, wsIn, nSent, peerClosed, exitVia,
                   childProc, teardown, resizeErrors>>

\* Lines 39-40: ws.close(reason=...) and return.
RefuseClose ==
    /\ pc = "refuse_close"
    /\ IF peerClosed
       THEN /\ pc' = "raised"
            /\ wsOut' = wsOut
       ELSE /\ wsOut' = Append(wsOut, Sent("close", <<>>))
            /\ pc' = "done"
    /\ UNCHANGED otherVars
    /\ UNCHANGED <<configured, recvContract, gate, spawnCount, child, fd,
                   rlist, shellWritten, ptyOut, writeCalls, ptyIn,
                   resizeCalls, wsIn, nSent, peerClosed, exitVia,
                   childProc, teardown, resizeErrors>>

\* Line 47: pty.fork().  It raises OSError, or there are two processes
\* from here on: the parent, to which it returns the child's pid and the
\* master side of a new pty and which goes on at line 55, and the child, to
\* which it returns pid 0 and which goes on at line 51.
Fork ==
    /\ pc = "fork"
    /\ spawnCount' = spawnCount + 1
    /\ \E ok \in BOOLEAN :
        IF ok
        THEN /\ child' = "running"
             /\ childProc' = "exec"
             /\ fd' = "open"
             /\ pc' = "setnb"
             /\ exitVia' = exitVia
        ELSE /\ pc' = "except"
             /\ exitVia' = "spawn_error"
             /\ UNCHANGED <<child, childProc, fd>>
    /\ UNCHANGED otherVars
    /\ UNCHANGED <<configured, recvContract, gate, rlist, shellWritten,
                   ptyOut, writeCalls, ptyIn, resizeCalls, wsIn, nSent, wsOut,
                   peerClosed, teardown, resizeErrors>>

\* Lines 89-90: the two fcntl calls that make master_fd non-blocking; an
\* error of either leaves _bridge_pty_to_websocket before its loop.
SetNonBlocking ==
    /\ pc = "setnb"
    /\ \E ok \in BOOLEAN :
        IF ok
        THEN pc' = "waitpid" /\ exitVia' = exitVia
        ELSE pc' = "except" /\ exitVia' = "setup_error"
    /\ UNCHANGED otherVars
    /\ UNCHANGED <<configured, recvContract, gate, spawnCount, child, fd,
                   rlist, shellWritten, ptyOut, writeCalls, ptyIn,
                   resizeCalls, wsIn, nSent, wsOut, peerClosed,
                   childProc, teardown, resizeErrors>>

\* A check that never sees the child's exit.
ChildExitedNever(c) == FALSE

\* wpid != 0: os.waitpid(pid, os.WNOHANG) returns the pid of a child that
\* has exited, and 0 for one that is still running.
ChildExited(c) == c = "zombie"

\* A loop that asks terminal_allowed() again at the top of every iteration
\* and ends the session when the answer has become no.
WaitPidRechecksGate ==
    /\ pc = "waitpid"
    /\ gate' = IF configured THEN "allowed" ELSE "denied"
    /\ IF ~configured
       THEN /\ pc' = "close_fd"
            /\ exitVia' = "denied"
            /\ child' = child
       ELSE IF ChildExited(child)
       THEN /\ child' = "reaped"
            /\ exitVia' = "child_exit"
            /\ pc' = "close_fd"
       ELSE /\ pc' = "select"
            /\ UNCHANGED <<child, exitVia>>
    /\ UNCHANGED otherVars
    /\ UNCHANGED <<configured, recvContract, spawnCount, fd, rlist,
                   shellWritten, ptyOut, writeCalls, ptyIn, resizeCalls, wsIn,
                   nSent, wsOut, peerClosed,
                   childProc, teardown, resizeErrors>>

\* Lines 95-98: the child-exit check that opens every iteration.
WaitPid ==
    /\ pc = "waitpid"
    /\ IF ChildExited(child)
       THEN /\ child' = "reaped"
            /\ exitVia' = "child_exit"
            /\ pc' = "close_fd"
       ELSE /\ pc' = "select"
            /\ UNCHANGED <<child, exitVia>>
    /\ UNCHANGED otherVars
    /\ UNCHANGED <<configured, recvContract, gate, spawnCount, fd, rlist,
                   shellWritten, ptyOut, writeCalls, ptyIn, resizeCalls, wsIn,
                   nSent, wsOut, peerClosed,
                   childProc, teardown, resizeErrors>>

\* A loop whose outer handler lets the error go on to the caller.
LoopErrorEscapes == "raised"

\* Lines 147-149: an exception that reaches the loop's outer handler is
\* logged and breaks the loop.
LoopErrorTarget == "close_fd"

\* select.select([master_fd], [], [], 0.1) returns, or raises (ValueError
\* for a descriptor beyond FD_SETSIZE, OSError).
SelectOutcomes == {"ok", "error"}

\* Lines 101-104: select on master_fd.  It is readable when output is
\* waiting, and when the slave side has been closed (the child is gone).
Select ==
    /\ pc = "select"
    /\ \E r \in SelectOutcomes :
        IF r = "ok"
        THEN /\ rlist' = (ptyOut # <<>> \/ child # "running")
             /\ pc' = IF rlist' THEN "read" ELSE "recv"
             /\ exitVia' = exitVia
        ELSE /\ rlist' = rlist
             /\ pc' = LoopErrorTarget
             /\ exitVia' = "bridge_error"
    /\ UNCHANGED otherVars
    /\ UNCHANGED <<configured, recvContract, gate, spawnCount, child, fd,
                   shellWritten, ptyOut, writeCalls, ptyIn, resizeCalls, wsIn,
                   nSent, wsOut, peerClosed, childProc, teardown,
                   resizeErrors>>

\* An os.read with no size limit: everything that is waiting.
ReadChunkAll(buf) == buf

\* os.read(master_fd, 4096): the waiting bytes, at most one read's worth.
ReadChunk(buf) == Take(buf, ReadSize)

\* A loop that goes back to its top after forwarding output (a continue
\* after the ws.send).
AfterForwardContinue == "waitpid"

\* Lines 108-118: after the ws.send of the chunk the iteration falls through
\* to the receive attempt.
AfterForward == "recv"

\* Lines 105-114 and 147-149: one os.read and the ws.send of what it
\* returned.  With nothing left to read after the slave side closed, the
\* read returns b"" or raises OSError (EIO); either ends the loop.  A send
\* on a channel the peer has closed raises, which the loop's outer handler
\* turns into a break.
ReadAndForward ==
    /\ pc = "read"
    /\ IF ptyOut = <<>>
       THEN /\ \E f \in {"eof", "read_error"} : exitVia' = f
            /\ pc' = "close_fd"
            /\ UNCHANGED <<ptyOut, wsOut>>
       ELSE /\ ptyOut' = Drop(ptyOut, Len(ReadChunk(ptyOut)))
            /\ IF peerClosed
               THEN /\ exitVia' = "bridge_error"
                    /\ pc' = LoopErrorTarget
                    /\ wsOut' = wsOut
               ELSE /\ wsOut' = Append(wsOut, Sent("data", Utf8Decode(ReadChunk(ptyOut))))
                    /\ pc' = AfterForward
                    /\ exitVia' = exitVia
    /\ UNCHANGED otherVars
    /\ UNCHANGED <<configured, recvContract, gate, spawnCount, child, fd,
                   rlist, shellWritten, writeCalls, ptyIn, resizeCalls, wsIn,
                   nSent, peerClosed,
                   childProc, teardown, resizeErrors>>

\* What ws.receive(timeout=0.05) does with no message waiting.  The loop
\* reads None as "closed" and an exception as "no data"; a channel library
\* may instead return None on a timeout and raise on a closed channel.
RecvEmpty(closed, contract) ==
    IF contract = "none_is_closed"
    THEN IF closed THEN "none" ELSE "raise"
    ELSE IF closed THEN "raise" ELSE "none"

\* The bytes one os.write(master_fd, data) puts into the terminal with
\* `room` bytes free: all of data, a part of it (a short write, whose
\* count the code ignores), or with no room none (BlockingIOError).
WriteAccepted(data, room) == Take(data, room)

\* Lines 118-145: one ws.receive and the dispatch of what it returned.
\* Every exception under the inner try is swallowed and the loop goes on.
ReceiveAndDispatch ==
    /\ pc = "recv"
    /\ IF wsIn # <<>>
       THEN /\ wsIn' = Tail(wsIn)
            /\ LET d == Dispatch(Head(wsIn))
               IN  /\ IF d.act = "resize"
                      THEN /\ resizeCalls' =
                                 resizeCalls \o ResizePty(d.rows, d.cols)
                           /\ \E ioctl \in IoctlOutcomes :
                                 resizeErrors' = resizeErrors
                                     + ResizeLogged(d.rows, d.cols, ioctl)
                      ELSE UNCHANGED <<resizeCalls, resizeErrors>>
                   /\ IF d.act = "write"
                      THEN /\ writeCalls' = Append(writeCalls, d.data)
                           /\ \E room \in PtyRooms :
                                 ptyIn' = ptyIn \o WriteAccepted(d.data, room)
                      ELSE UNCHANGED <<writeCalls, ptyIn>>
            /\ pc' = "waitpid"
            /\ exitVia' = exitVia
       ELSE /\ IF RecvEmpty(peerClosed, recvContract) = "none"
               THEN pc' = "close_fd" /\ exitVia' = "peer_close"
               ELSE pc' = "waitpid" /\ exitVia' = exitVia
            /\ UNCHANGED <<wsIn, resizeCalls, resizeErrors, writeCalls,
                           ptyIn>>
    /\ UNCHANGED otherVars
    /\ UNCHANGED <<configured, recvContract, gate, spawnCount, child, fd,
                   rlist, shellWritten, ptyOut, nSent, wsOut, peerClosed,
                   childProc, teardown>>

\* A handler that runs its finally block first and reports the error after.
ExceptSendAfterTeardown ==
    /\ \/ pc = "except" /\ pc' = "close_fd" /\ wsOut' = wsOut
       \/ /\ pc = "done"
          /\ exitVia \in {"spawn_error", "setup_error"}
          /\ ~peerClosed
          /\ wsOut = <<>>
          /\ wsOut' = Append(wsOut, Sent("error", <<>>))
          /\ pc' = pc
    /\ UNCHANGED otherVars
    /\ UNCHANGED <<configured, recvContract, gate, spawnCount, child, fd,
                   rlist, shellWritten, ptyOut, writeCalls, ptyIn,
                   resizeCalls, wsIn, nSent, peerClosed, exitVia,
                   childProc, teardown, resizeErrors>>

\* Lines 57-62: the handler's except block, reached by an error of pty.fork
\* or of the fcntl calls; its ws.send may fail and is then swallowed.
ExceptSend ==
    /\ pc = "except"
    /\ wsOut' = IF peerClosed THEN wsOut ELSE Append(wsOut, Sent("error", <<>>))
    /\ pc' = "close_fd"
    /\ UNCHANGED otherVars
    /\ UNCHANGED <<configured, recvContract, gate, spawnCount, child, fd,
                   rlist, shellWritten, ptyOut, writeCalls, ptyIn,
                   resizeCalls, wsIn, nSent, peerClosed, exitVia,
                   childProc, teardown, resizeErrors>>

\* Lines 66-69: os.close(master_fd) returns or raises; the except clause
\* swallows what it raises.
CloseOutcomes == {"ok", "error"}

\* The descriptor after an os.close that raised: close(2) can report an
\* error with the descriptor released or still open.
AfterFailedClose == {"closed", "open"}

\* A finally block whose os.close is not guarded: what it raises leaves the
\* handler.
CloseErrorEscapes == "raised"

\* A finally block that calls os.close again when it has raised.
CloseErrorRetries == "close_fd"

\* Lines 68-69: except Exception: pass; the finally block goes on to line 71.
CloseErrorTarget == "reap"

\* Lines 63-69: the finally block begins; os.close(master_fd) when
\* master_fd is not None.  os.close of a number that is not open raises
\* (EBADF).
CloseFd ==
    /\ pc = "close_fd"
    /\ IF fd # "none"
       THEN \E o \in (IF fd = "open" THEN CloseOutcomes ELSE {"error"}) :
              /\ fd' \in (IF o = "ok" \/ fd = "closed" THEN {"closed"}
                          ELSE AfterFailedClose)
              /\ teardown' = [teardown EXCEPT
                                 !.runs = @ + 1,
                                 !.closes = @ + 1,
                                 !.errors = IF o = "ok" THEN @ ELSE @ + 1]
              /\ pc' = IF o = "ok" THEN "reap" ELSE CloseErrorTarget
       ELSE /\ fd' = fd
            /\ teardown' = [teardown EXCEPT !.runs = @ + 1]
            /\ pc' = "reap"
    /\ UNCHANGED otherVars
    /\ UNCHANGED <<configured, recvContract, gate, spawnCount, child, rlist,
                   shellWritten, ptyOut, writeCalls, ptyIn, resizeCalls, wsIn,
                   nSent, wsOut, peerClosed, exitVia, childProc, resizeErrors>>

\* A teardown that waits only for a child the loop has not reaped.
ReapGuardSkipsReaped(c) == c \notin {"none", "reaped"}

\* Line 71: pid is not None and pid > 0, in the parent: pty.fork returned.
ReapGuard(c) == c # "none"

\* Lines 72-75: what os.waitpid(pid, os.WNOHANG) does for a child in state
\* c: it raises ChildProcessError (ECHILD) for one this process has already
\* waited for, and returns for one that is running or has exited.
WaitRaises(c) == c = "reaped"

\* A finally block that waits without WNOHANG: os.waitpid(pid, 0) returns
\* only when the child has exited.
ReapBlocking ==
    /\ pc = "reap"
    /\ child # "running"
    /\ child' = IF child = "zombie" THEN "reaped" ELSE child
    /\ teardown' = [teardown EXCEPT
                       !.reaps = IF ReapGuard(child) THEN @ + 1 ELSE @]
    /\ pc' = "done"
    /\ UNCHANGED otherVars
    /\ UNCHANGED <<configured, recvContract, gate, spawnCount, fd, rlist,
                   shellWritten, ptyOut, writeCalls, ptyIn, resizeCalls, wsIn,
                   nSent, wsOut, peerClosed, exitVia, childProc, resizeErrors>>

\* Lines 71-75: os.waitpid(pid, os.WNOHANG) when there is a pid: it reaps a
\* child that has exited, returns at once for one that is running, and
\* raises ECHILD (swallowed by the except clause) for one already reaped.
Reap ==
    /\ pc = "reap"
    /\ child' = IF child = "zombie" THEN "reaped" ELSE child
    /\ teardown' = [teardown EXCEPT
                       !.reaps = IF ReapGuard(child) THEN @ + 1 ELSE @,
                       !.errors = IF ReapGuard(child) /\ WaitRaises(child)
                                  THEN @ + 1 ELSE @]
    /\ pc' = "done"
    /\ UNCHANGED otherVars
    /\ UNCHANGED <<configured, recvContract, gate, spawnCount, fd, rlist,
                   shellWritten, ptyOut, writeCalls, ptyIn, resizeCalls, wsIn,
                   nSent, wsOut, peerClosed, exitVia, childProc, resizeErrors>>

\* ------------------------------------------ the child process, the peer
\* The child process and the peer act at any time.  Each of their steps is taken
\* here at the handler positions whose next step can observe it: at any
\* other position it commutes with the handler's steps up to the next such
\* position, so every observable order of events is still reached.

\* Lines 49-52, in the child: os.execvp(shell, [shell]) replaces the process
\* by the shell, or raises OSError (SHELL names no executable file).  The
\* parent sees nothing of this step.
ChildExec ==
    /\ childProc = "exec"
    /\ pc = "setnb"
    /\ \E ok \in BOOLEAN : childProc' = IF ok THEN "shell" ELSE "except"
    /\ UNCHANGED otherVars
    /\ UNCHANGED <<configured, recvContract, pc, gate, spawnCount, child, fd,
                   rlist, shellWritten, ptyOut, writeCalls, ptyIn,
                   resizeCalls, wsIn, nSent, wsOut, peerClosed, exitVia,
                   teardown, resizeErrors>>

\* Lines 57-75, in the child after os.execvp raised: the except block's
\* ws.send on the child's copy of the channel, the finally block (os.close
\* of the master_fd value pty.fork returned to the child, which is no open
\* descriptor of its own there; pid is 0, so no waitpid), and the return
\* from terminal_websocket into the server's code, in the child.  The peer
\* sees the child's frame among the parent's.
ChildExceptFinally ==
    /\ childProc = "except"
    /\ pc \in {"setnb", "waitpid"}
    /\ wsOut' = IF peerClosed
                THEN wsOut
                ELSE Append(wsOut, Sent("child_error", <<>>))
    /\ childProc' = "returned"
    /\ UNCHANGED otherVars
    /\ UNCHANGED <<configured, recvContract, pc, gate, spawnCount, child, fd,
                   rlist, shellWritten, ptyOut, writeCalls, ptyIn,
                   resizeCalls, wsIn, nSent, peerClosed, exitVia,
                   teardown, resizeErrors>>

\* The shell writes one character to the slave side of the pty.  The loop
\* looks at the terminal in its select and its read.
ShellWriteUpTo(maxBytes) ==
    /\ child = "running"
    /\ childProc = "shell"
    /\ pc \in {"waitpid", "select", "read"}
    /\ \E w \in ShellWrites :
        /\ Len(shellWritten) + Len(w) <= maxBytes
        /\ shellWritten' = shellWritten \o w
        /\ ptyOut' = ptyOut \o w
    /\ UNCHANGED otherVars
    /\ UNCHANGED <<configured, recvContract, pc, gate, spawnCount, child, fd,
                   rlist, writeCalls, ptyIn, resizeCalls, wsIn, nSent, wsOut,
                   peerClosed, exitVia,
                   childProc, teardown, resizeErrors>>

\* The child process (the shell, or the copy of the server that came back
\* from the handler) exits and waits to be reaped.  The handler looks at the child
\* in its two waitpid calls and, through the hang-up of the pty, in select.
ChildExit ==
    /\ child = "running"
    /\ childProc \in {"shell", "returned"}
    /\ pc \in {"waitpid", "select", "reap"}
    /\ child' = "zombie"
    /\ UNCHANGED otherVars
    /\ UNCHANGED <<configured, recvContract, pc, gate, spawnCount, fd, rlist,
                   shellWritten, ptyOut, writeCalls, ptyIn, resizeCalls, wsIn,
                   nSent, wsOut, peerClosed, exitVia,
                   childProc, teardown, resizeErrors>>

\* The peer sends one frame.  The loop looks at the channel's input in
\* ws.receive alone.
PeerSendUpTo(maxFrames, frames) ==
    /\ ~peerClosed
    /\ pc = "recv"
    /\ nSent < maxFrames
    /\ nSent' = nSent + 1
    /\ \E f \in frames : wsIn' = Append(wsIn, f)
    /\ UNCHANGED otherVars
    /\ UNCHANGED <<configured, recvContract, pc, gate, spawnCount, child, fd,
                   rlist, shellWritten, ptyOut, writeCalls, ptyIn,
                   resizeCalls, wsOut, peerClosed, exitVia,
                   childProc, teardown, resizeErrors>>

\* The peer closes the channel.  The handler meets the closed channel in
\* its ws.send, ws.close and ws.receive calls.
PeerClose ==
    /\ ~peerClosed
    /\ pc \in {"refuse1", "refuse2", "refuse_close", "read", "recv", "except"}
    /\ peerClosed' = TRUE
    /\ UNCHANGED otherVars
    /\ UNCHANGED <<configured, recvContract, pc, gate, spawnCount, child, fd,
                   rlist, shellWritten, ptyOut, writeCalls, ptyIn,
                   resizeCalls, wsIn, nSent, wsOut, exitVia,
                   childProc, teardown, resizeErrors>>

\* What terminal_allowed() would answer changes while the handler runs:
\* another request completes the first-run set-up (complete_first_run stores
\* the password hash), or the stored hash goes away with the files under
\* /etc/phev2mqtt-webui.
GateChanges ==
    /\ pc \notin {"done", "raised"}
    /\ configured' = ~configured
    /\ UNCHANGED otherVars
    /\ UNCHANGED <<recvContract, pc, gate, spawnCount, child, fd, rlist,
                   shellWritten, ptyOut, writeCalls, ptyIn, resizeCalls, wsIn,
                   nSent, wsOut, peerClosed, exitVia, childProc, teardown,
                   resizeErrors>>

\* ------------------------------------------------------ the specifications
Handler ==
    \/ CheckPermission
    \/ RefuseSend
    \/ RefuseClose
    \/ Fork
    \/ SetNonBlocking
    \/ WaitPid
    \/ Select
    \/ ReadAndForward
    \/ ReceiveAndDispatch
    \/ ExceptSend
    \/ CloseFd
    \/ Reap

ShellWrite == ShellWriteUpTo(MaxShellBytes)

PeerSend == PeerSendUpTo(MaxInbound, Frames)

ChildRole ==
    \/ ChildExec
    \/ ChildExceptFinally

Environment ==
    \/ ShellWrite
    \/ ChildExit
    \/ PeerSend
    \/ PeerClose

Next == Handler \/ ChildRole \/ Environment

Spec == Init /\ [][Next]_vars

\* The specification of the progress claims: less traffic, of one kind of
\* frame, and the handler's steps are fair.  Every call the handler makes
\* returns within its timeout (select 0.1 s, ws.receive 0.05 s, WNOHANG, a
\* non-blocking master_fd), so the handler always takes its next step; the
\* shell and the peer owe nothing.
ProgressShellWrite == ShellWriteUpTo(ProgressShellBytes)

ProgressPeerSend == PeerSendUpTo(ProgressInbound, {FrameEAcute})

ProgressNext ==
    \/ Handler
    \/ ChildRole
    \/ ProgressShellWrite
    \/ ChildExit
    \/ ProgressPeerSend
    \/ PeerClose
    \/ GateChanges

FairSpec == Init /\ [][ProgressNext]_vars /\ WF_vars(Handler)

\* The specification of the claims about the handling of inbound frames and
\* about the handler's way through its code: every kind of frame, little
\* shell output.
DialogueNext ==
    \/ Handler
    \/ ChildRole
    \/ ProgressShellWrite
    \/ ChildExit
    \/ PeerSend
    \/ PeerClose

DialogueSpec == Init /\ [][DialogueNext]_vars

\* The specification of the claims about the chunks of shell output: all
\* the shell output, more than one read takes, and one kind of frame.
OutputNext ==
    \/ Handler
    \/ ChildRole
    \/ ShellWrite
    \/ ChildExit
    \/ ProgressPeerSend
    \/ PeerClose

OutputSpec == Init /\ [][OutputNext]_vars

\* ------------------------------------ the steps of the two sessions
\* Lines 36-55: the permission check; when it refuses, the two lines and
\* the close on the session's own channel; else pty.fork(), which gives
\* this call a child, under a process id that is free, and the lowest free
\* descriptor, open on a new pty, or raises.
PairStart(s) ==
    /\ sess[s].pc = "start"
    /\ IF ~configured
       THEN /\ sess' = [sess EXCEPT ![s].pc = "done"]
            /\ chans' = [chans EXCEPT ![s].out =
                           IF chans[s].closed THEN @
                           ELSE @ \cup {Sent("refuse1", <<>>),
                                         Sent("refuse2", <<>>),
                                         Sent("close", <<>>)}]
            /\ UNCHANGED <<fdTable, ptys>>
       ELSE /\ \/ /\ fdTable' = [fdTable EXCEPT ![LowestFree] = s]
                  /\ ptys' = [ptys EXCEPT ![s].shell = "running",
                                          ![s].pid = LowestFreePid]
                  /\ sess' = [sess EXCEPT ![s] = [pc |-> "read",
                                                  master_fd |-> LowestFree,
                                                  pid |-> LowestFreePid]]
               \/ /\ sess' = [sess EXCEPT ![s].pc = "finally"]
                  /\ UNCHANGED <<fdTable, ptys>>
            /\ chans' = chans

\* Lines 95-114: os.waitpid on this call's pid, then select and os.read on
\* the number in master_fd and the ws.send of what was read on this call's
\* ws.  The operating system reads whatever pty the number is open on and
\* waits for whatever child holds the pid; ECHILD and EBADF end the loop
\* through line 147.
PairReadAndForward(s) ==
    /\ sess[s].pc = "read"
    /\ LET p == PtyAt(MasterFd(s))
       IN  IF ChildAt(sess[s].pid) = "none" \/ p = "free"
           THEN /\ sess' = [sess EXCEPT ![s].pc = "finally"]
                /\ UNCHANGED <<ptys, chans>>
           ELSE IF ChildExited(ptys[ChildAt(sess[s].pid)].shell)
           THEN /\ ptys' = WaitPidNoHang(s, sess[s].pid)
                /\ sess' = [sess EXCEPT ![s].pc = "finally"]
                /\ chans' = chans
           ELSE IF ptys[p].out # <<>>
           THEN /\ ptys' = [ptys EXCEPT ![p].out =
                               Drop(@, Len(ReadChunk(ptys[p].out)))]
                /\ IF chans[s].closed
                   THEN /\ sess' = [sess EXCEPT ![s].pc = "finally"]
                        /\ chans' = chans
                   ELSE /\ chans' = [chans EXCEPT ![s].out = @ \cup
                               {Sent("data", Utf8Decode(ReadChunk(ptys[p].out)))}]
                        /\ sess' = [sess EXCEPT ![s].pc = "recv"]
           ELSE /\ sess' = [sess EXCEPT ![s].pc =
                               IF ptys[p].shell = "running"
                               THEN "recv" ELSE "finally"]
                /\ UNCHANGED <<ptys, chans>>
    /\ UNCHANGED fdTable

\* Lines 118-145: ws.receive on this call's ws, and the os.write or the
\* ioctl on the number in master_fd.
PairReceiveAndDispatch(s) ==
    /\ sess[s].pc = "recv"
    /\ LET p == PtyAt(MasterFd(s))
       IN  IF chans[s].inq # <<>>
           THEN /\ chans' = [chans EXCEPT ![s].inq = Tail(@)]
                /\ sess' = [sess EXCEPT ![s].pc = "read"]
                /\ LET d == Dispatch(Head(chans[s].inq))
                   IN  IF p = "free" \/ d.act = "none"
                       THEN ptys' = ptys
                       ELSE IF d.act = "resize"
                       THEN ptys' = [ptys EXCEPT ![p].win =
                                        @ \cup SeqRange(ResizePty(d.rows, d.cols))]
                       ELSE \E room \in PtyRooms :
                              ptys' = [ptys EXCEPT ![p].inp =
                                  @ \cup SeqRange(WriteAccepted(d.data, room))]
           ELSE /\ sess' = [sess EXCEPT ![s].pc =
                               IF RecvEmpty(chans[s].closed, recvContract) = "none"
                               THEN "finally" ELSE "read"]
                /\ UNCHANGED <<ptys, chans>>
    /\ UNCHANGED fdTable

\* Lines 63-75: os.close on the number in master_fd, when there is one, and
\* os.waitpid(pid, os.WNOHANG) on this call's pid, when there is one.
PairTeardown(s) ==
    /\ sess[s].pc = "finally"
    /\ LET p == PtyAt(MasterFd(s))
           reaped == IF sess[s].pid # NoPid
                     THEN WaitPidNoHang(s, sess[s].pid)
                     ELSE ptys
       IN  IF p = "free"
           THEN fdTable' = fdTable /\ ptys' = reaped
           ELSE /\ fdTable' = [fdTable EXCEPT ![MasterFd(s)] = "free"]
                /\ ptys' = [reaped EXCEPT ![p].closedBy = @ \cup {s}]
    /\ sess' = [sess EXCEPT ![s].pc = "done"]
    /\ UNCHANGED chans

PairTrafficSoFar ==
    ptys["A"].written + ptys["B"].written + chans["A"].nSent + chans["B"].nSent

\* The shell of session s writes its byte to its pty.
PairShellWrite(s) ==
    /\ ptys[s].shell = "running"
    /\ sess[s].pc = "read"
    /\ PairTrafficSoFar < PairTraffic
    /\ ptys' = [ptys EXCEPT ![s].out = Append(@, ShellByte(s)),
                            ![s].written = @ + 1]
    /\ UNCHANGED <<sess, fdTable, chans>>

\* The shell of session s exits.
PairShellExit(s) ==
    /\ ptys[s].shell = "running"
    /\ sess[s].pc \in {"read", "finally"}
    /\ ptys' = [ptys EXCEPT ![s].shell = "zombie"]
    /\ UNCHANGED <<sess, fdTable, chans>>

\* The peer of session s sends one of its frames.
PairPeerSend(s) ==
    /\ ~chans[s].closed
    /\ sess[s].pc = "recv"
    /\ PairTrafficSoFar < PairTraffic
    /\ \E f \in PeerFrames(s) :
        chans' = [chans EXCEPT ![s].inq = Append(@, f), ![s].nSent = @ + 1]
    /\ UNCHANGED <<sess, fdTable, ptys>>

\* The peer of session s closes its channel.
PairPeerClose(s) ==
    /\ ~chans[s].closed
    /\ sess[s].pc \in {"start", "read", "recv"}
    /\ chans' = [chans EXCEPT ![s].closed = TRUE]
    /\ UNCHANGED <<sess, fdTable, ptys>>

PairHandler(s) ==
    \/ PairStart(s)
    \/ PairReadAndForward(s)
    \/ PairReceiveAndDispatch(s)
    \/ PairTeardown(s)

PairEnvironment(s) ==
    \/ PairShellWrite(s)
    \/ PairShellExit(s)
    \/ PairPeerSend(s)
    \/ PairPeerClose(s)

soloVars == <<configured, recvContract, pc, gate, spawnCount, child, fd, rlist,
              shellWritten, ptyOut, writeCalls, ptyIn, resizeCalls, wsIn,
              nSent, wsOut, peerClosed, exitVia, childProc, teardown,
              resizeErrors>>

PairNext ==
    /\ \E s \in Sessions : PairHandler(s) \/ PairEnvironment(s)
    /\ UNCHANGED <<soloVars, cfgVars, emuVars, mqttVars, reqVars>>

PairSpec == Init /\ [][PairNext]_vars

\* ------------------------------------------ calls on the configuration
\* auth.py lines 87-90: terminal_allowed() returns is_configured(), whose
\* get_secret goes through load_config and _load_key.
TerminalAllowed ==
    /\ configCalls < MaxConfigCalls
    /\ configCalls' = configCalls + 1
    /\ keyFile' = LoadKey(keyFile)
    /\ configFile' = configFile
    /\ lastCall' = [op |-> "terminal_allowed",
                    result |-> IsConfigured(keyFile, configFile)]

\* config.py lines 145-154: set_secret("webui_password", h): load_config,
\* encrypt under the key of _load_key, save_config.
SetSecret(kf, h) == [exists |-> TRUE, webui_password |-> Encrypt(LoadKey(kf), h)]

\* auth.py lines 37-48: complete_first_run(password).
CompleteFirstRun(pw) ==
    /\ configCalls < MaxConfigCalls
    /\ configCalls' = configCalls + 1
    /\ keyFile' = LoadKey(keyFile)
    /\ LET r == IF IsConfigured(keyFile, configFile) = "raise" THEN "raise"
                ELSE IF IsConfigured(keyFile, configFile) = "true" THEN "false"
                ELSE IF pw.len < MinPasswordLen THEN "false"
                ELSE "true"
       IN  /\ configFile' = IF r = "true" THEN SetSecret(keyFile, pw.hash)
                                          ELSE configFile
           /\ lastCall' = [op |-> "complete_first_run", result |-> r]

\* auth.py lines 51-58 and 73-84: change_password(old, new):
\* verify_password(old) against the stored hash, the length of new, then
\* set_secret.
ChangePassword(old, new) ==
    /\ configCalls < MaxConfigCalls
    /\ configCalls' = configCalls + 1
    /\ keyFile' = LoadKey(keyFile)
    /\ LET stored == GetSecret(keyFile, configFile)
           r == IF stored = "RuntimeError" THEN "raise"
                ELSE IF stored = "" \/ stored # old.hash THEN "false"
                ELSE IF new.len < MinPasswordLen THEN "false"
                ELSE "true"
       IN  /\ configFile' = IF r = "true" THEN SetSecret(keyFile, new.hash)
                                          ELSE configFile
           /\ lastCall' = [op |-> "change_password", result |-> r]

ConfigNext ==
    /\ \/ TerminalAllowed
       \/ \E pw \in Passwords : CompleteFirstRun(pw)
       \/ \E old, new \in Passwords : ChangePassword(old, new)
    /\ UNCHANGED <<soloVars, pairVars, emuVars, mqttVars, reqVars>>

\* The specification of the claims about the stored configuration: the
\* server finds the files in any of the states of ConfigInit.
ConfigStart ==
    /\ SoloInit
    /\ PairInit
    /\ ConfigInit
    /\ EmuInit
    /\ MqttInit
    /\ RequestInit

ConfigSpec == ConfigStart /\ [][ConfigNext]_vars

\* ---------------------------- concurrent requests on the configuration
\* The server handles requests in threads.  A request is a sequence of
\* steps, one per access to secret.key or config.json and one per lock
\* acquisition; between the steps of one request the others take theirs.

\* Requests start in the order of their numbers.
Startable(r) ==
    /\ requests[r].pc = "idle"
    /\ r > 1 => requests[r - 1].pc # "idle"

\* The end of a request: the with statements release the locks it holds,
\* on a return and on an exception.  Of a request that changed nothing only
\* the call and its result are kept.
Finish(r, res, fr) ==
    /\ requests' = [requests EXCEPT ![r] =
                        [@ EXCEPT !.pc = "done", !.phase = "none",
                                  !.old = NoPassword,
                                  !.password = IF res \in {"true", "completed"}
                                               THEN @ ELSE NoPassword,
                                  !.key = NoKey, !.config = NoConfig,
                                  !.result = res, !.first_run = fr]]
    /\ authLock' = IF authLock = r THEN 0 ELSE authLock
    /\ appLock' = IF appLock = r THEN 0 ELSE appLock

\* config.py lines 46-47, 62-63: the first _load_key of a request looks for
\* the key file and goes on to write one or to read config.json.  The key
\* file is never removed, so the later calls of _load_key in the same
\* request find it.
FirstLoad == IF keyFile # NoKey THEN "readcfg" ELSE "genkey"

\* app.py lines 46-57: a request whose handler does nothing more than the
\* before_request gate's config.is_configured().
is_configured(r) ==
    /\ Startable(r)
    /\ requests' = [requests EXCEPT ![r] =
                        [@ EXCEPT !.op = "is_configured", !.pc = FirstLoad,
                                  !.phase = "gate"]]
    /\ UNCHANGED <<keyFile, configFile, ssh_enabled, authLock, appLock>>

\* auth.py lines 37-48: a call of complete_first_run(pw), from with
\* _setup_lock (line 40) on.
complete_first_run(r, pw) ==
    /\ Startable(r)
    /\ authLock = 0
    /\ authLock' = r
    /\ requests' = [requests EXCEPT ![r] =
                        [@ EXCEPT !.op = "complete_first_run",
                                  !.pc = FirstLoad, !.phase = "check",
                                  !.password = pw]]
    /\ UNCHANGED <<keyFile, configFile, ssh_enabled, appLock>>

\* app.py lines 69-110: POST /setup with the password pw, confirmed and
\* acknowledged; the gate comes first.
setup_submit(r, pw) ==
    /\ Startable(r)
    /\ requests' = [requests EXCEPT ![r] =
                        [@ EXCEPT !.op = "setup_submit", !.pc = FirstLoad,
                                  !.phase = "gate", !.password = pw]]
    /\ UNCHANGED <<keyFile, configFile, ssh_enabled, authLock, appLock>>

\* api.py lines 300-315, auth.py lines 73-84: POST /auth/change-password in
\* a logged-in session; the gate comes first.
change_password(r, old, new) ==
    /\ Startable(r)
    /\ requests' = [requests EXCEPT ![r] =
                        [@ EXCEPT !.op = "change_password", !.pc = FirstLoad,
                                  !.phase = "gate", !.old = old,
                                  !.password = new]]
    /\ UNCHANGED <<keyFile, configFile, ssh_enabled, authLock, appLock>>

\* api.py lines 285-297 and 318-332: POST /config/set or /ssh/toggle with
\* "ssh_enabled": v in a logged-in session; the gate comes first.
config_set(r, v) ==
    /\ Startable(r)
    /\ requests' = [requests EXCEPT ![r] =
                        [@ EXCEPT !.op = "config_set", !.pc = FirstLoad,
                                  !.phase = "gate", !.value = v]]
    /\ UNCHANGED <<keyFile, configFile, ssh_enabled, authLock, appLock>>

\* app.py line 72: with _setup_lock, then its is_configured().
AcquireAppLock(r) ==
    /\ requests[r].pc = "acquire_app"
    /\ appLock = 0
    /\ appLock' = r
    /\ requests' = [requests EXCEPT ![r] =
                        [@ EXCEPT !.pc = "readcfg", !.phase = "submit"]]
    /\ UNCHANGED <<keyFile, configFile, ssh_enabled, authLock>>

\* auth.py line 40 in a call from setup_submit: with _setup_lock, then
\* is_configured().
AcquireAuthLock(r) ==
    /\ requests[r].pc = "acquire_auth"
    /\ authLock = 0
    /\ authLock' = r
    /\ requests' = [requests EXCEPT ![r] =
                        [@ EXCEPT !.pc = "readcfg", !.phase = "check"]]
    /\ UNCHANGED <<keyFile, configFile, ssh_enabled, appLock>>

\* config.py lines 49-56: the new key is written to the key file.
GenerateKey(r) ==
    /\ requests[r].pc = "genkey"
    /\ keyFile' = FreshKeyOf(r)
    /\ requests' = [requests EXCEPT ![r].pc = "readcfg"]
    /\ UNCHANGED <<configFile, ssh_enabled, authLock, appLock>>

\* config.py lines 79-91: load_config reads config.json, or takes the
\* defaults; config_set goes on to save_config, the others to the key.
ReadConfig(r) ==
    /\ requests[r].pc = "readcfg"
    /\ requests' = [requests EXCEPT ![r] =
                        [@ EXCEPT !.config =
                                      [exists |-> configFile.exists,
                                       webui_password |->
                                           StoredSecret(configFile),
                                       ssh_enabled |-> ssh_enabled],
                                  !.pc = IF requests[r].phase = "plain"
                                         THEN "replace" ELSE "readkey"]]
    /\ UNCHANGED <<keyFile, configFile, ssh_enabled, authLock, appLock>>

\* config.py lines 128-142: what get_secret returns for a request that has
\* loaded config c and reads key k.
SecretOf(c, k) ==
    IF c.webui_password = NoSecret THEN ""
    ELSE IF Decrypt(k, c.webui_password) = "InvalidToken" THEN "RuntimeError"
    ELSE Decrypt(k, c.webui_password)

\* config.py lines 157-160 on the same values.
ConfiguredOf(c, k) ==
    IF SecretOf(c, k) = "RuntimeError" THEN "raise"
    ELSE IF SecretOf(c, k) # "" THEN "true" ELSE "false"

\* The next call of load_config in the same request.
Continue(r, ph) ==
    /\ requests' = [requests EXCEPT ![r] =
                        [@ EXCEPT !.pc = "readcfg", !.phase = ph,
                                  !.key = NoKey, !.config = NoConfig]]
    /\ UNCHANGED <<authLock, appLock>>

\* config.py lines 69-71 and 136-142: _get_fernet reads the key file and
\* get_secret decrypts; what follows depends on the caller.
ReadKey(r) ==
    /\ requests[r].pc = "readkey"
    /\ LET q == requests[r]
           c == ConfiguredOf(q.config, keyFile)
           s == SecretOf(q.config, keyFile)
       IN  CASE q.phase = "gate" ->
                    \* app.py lines 46-57, flask login_required
                    IF q.op = "is_configured" \/ c = "raise"
                    THEN Finish(r, c, "none")
                    ELSE IF q.op = "setup_submit"
                    THEN /\ requests' = [requests EXCEPT ![r] =
                                 [@ EXCEPT !.pc = "acquire_app",
                                           !.phase = "none",
                                           !.config = NoConfig]]
                         /\ UNCHANGED <<authLock, appLock>>
                    ELSE IF c = "false" THEN Finish(r, "redirect", "none")
                    ELSE Continue(r, IF q.op = "change_password"
                                     THEN "verify" ELSE "plain")
              [] q.phase = "submit" ->
                    \* app.py lines 73-98
                    IF c = "raise" THEN Finish(r, "raise", "none")
                    ELSE IF c = "true" THEN Finish(r, "redirect", "none")
                    ELSE IF q.password.len < MinPasswordLen
                    THEN Finish(r, "error", "none")
                    ELSE /\ requests' = [requests EXCEPT ![r] =
                                 [@ EXCEPT !.pc = "acquire_auth",
                                           !.phase = "none",
                                           !.config = NoConfig]]
                         /\ UNCHANGED <<authLock, appLock>>
              [] q.phase = "check" ->
                    \* auth.py lines 41-44, app.py lines 101-105
                    IF c = "raise" THEN Finish(r, "raise", "raise")
                    ELSE IF c = "true" \/ q.password.len < MinPasswordLen
                    THEN Finish(r, IF q.op = "setup_submit" THEN "redirect"
                                   ELSE "false", "false")
                    ELSE Continue(r, "store")
              [] q.phase = "verify" ->
                    \* auth.py lines 51-58, 75-79
                    IF s = "RuntimeError" THEN Finish(r, "raise", "none")
                    ELSE IF s = "" \/ s # q.old.hash
                            \/ q.password.len < MinPasswordLen
                    THEN Finish(r, "false", "none")
                    ELSE Continue(r, "store")
              [] q.phase = "store" ->
                    \* config.py lines 148-150
                    /\ requests' = [requests EXCEPT ![r] =
                            [@ EXCEPT !.pc = "replace", !.key = keyFile]]
                    /\ UNCHANGED <<authLock, appLock>>
    /\ UNCHANGED <<keyFile, configFile, ssh_enabled>>

\* config.py lines 94-125, 152-154: save_config replaces config.json with
\* the request's copy, changed in the one field the request sets.
SaveConfig(r) ==
    /\ requests[r].pc = "replace"
    /\ LET q == requests[r]
       IN  /\ configFile' =
                  [exists |-> TRUE,
                   webui_password |->
                       IF q.phase = "store"
                       THEN Encrypt(q.key, q.password.hash)
                       ELSE q.config.webui_password]
           /\ ssh_enabled' = IF q.phase = "plain" THEN q.value
                             ELSE q.config.ssh_enabled
           /\ Finish(r, IF q.op = "setup_submit" THEN "completed"
                        ELSE "true",
                     IF q.op \in {"setup_submit", "complete_first_run"}
                     THEN "true" ELSE "none")
    /\ UNCHANGED keyFile

\* The start common to the requests' specifications.
RequestStart ==
    /\ SoloInit
    /\ configured
    /\ recvContract = "none_is_closed"
    /\ PairInit
    /\ EmuInit
    /\ MqttInit
    /\ RequestInit
    /\ lastCall = [op |-> "none", result |-> "none"]
    /\ configCalls = 0

\* The first run: requests that pass the gate before a password is
\* configured, which are those for the set-up pages, and direct calls of
\* complete_first_run.
FirstRunNext ==
    /\ \E r \in Requests :
           \/ is_configured(r)
           \/ \E pw \in Passwords : complete_first_run(r, pw)
           \/ \E pw \in Passwords : setup_submit(r, pw)
           \/ AcquireAppLock(r)
           \/ AcquireAuthLock(r)
           \/ GenerateKey(r)
           \/ ReadConfig(r)
           \/ ReadKey(r)
           \/ SaveConfig(r)
    /\ UNCHANGED <<lastCall, configCalls>>
    /\ UNCHANGED <<soloVars, pairVars, emuVars, mqttVars>>

\* A fresh installation, or one with a password hash stored under the key
\* in the key file.
FirstRunStart ==
    /\ RequestStart
    /\ \/ /\ keyFile = NoKey
          /\ configFile = [exists |-> FALSE, webui_password |-> NoSecret]
       \/ /\ keyFile = StoredKey
          /\ configFile = [exists |-> TRUE,
                           webui_password |-> Encrypt(StoredKey, "hash8")]

FirstRunSpec == FirstRunStart /\ [][FirstRunNext]_vars

\* Requests of logged-in sessions that run concurrently in one run.
MaxUpdates == 2

\* The updates of a configured panel: requests of logged-in sessions.
UpdateNext ==
    /\ \E r \in 1..MaxUpdates :
           \/ \E old, new \in Passwords : change_password(r, old, new)
           \/ \E v \in BOOLEAN : config_set(r, v)
           \/ ReadConfig(r)
           \/ ReadKey(r)
           \/ SaveConfig(r)
    /\ UNCHANGED <<lastCall, configCalls>>
    /\ UNCHANGED <<soloVars, pairVars, emuVars, mqttVars>>

\* A panel with a password hash stored under the key in the key file; a
\* session can only be logged in on such a panel.
UpdateStart ==
    /\ RequestStart
    /\ keyFile = StoredKey
    /\ configFile = [exists |-> TRUE,
                     webui_password |-> Encrypt(StoredKey, "hash8")]

UpdateSpec == UpdateStart /\ [][UpdateNext]_vars

\* -------------------------------------------- the emulator's operations
\* The thread enable() starts next: the first that has not been started.
NextThread ==
    CHOOSE t \in CycleThreads :
        /\ cycle[t].pc = "unborn"
        /\ \A u \in CycleThreads : cycle[u].pc = "unborn" => t <= u

\* An enable that does not look at _running.
enableWhileRunning(v) ==
    /\ IF v = ""
       THEN /\ lastEmuCall' = [op |-> "enable", arg |-> v, result |-> FALSE]
            /\ UNCHANGED <<emuRunning, emuVin, stopEvent, cycle>>
       ELSE /\ \E t \in CycleThreads : cycle[t].pc = "unborn"
            /\ emuVin' = v
            /\ emuRunning' = TRUE
            /\ stopEvent' = FALSE
            /\ cycle' = [cycle EXCEPT ![NextThread].pc = "test"]
            /\ lastEmuCall' = [op |-> "enable", arg |-> v, result |-> TRUE]

\* Lines 20-36: enable(v).  The test of v is on the caller's argument; the
\* rest runs under _lock, in one piece for every other holder of the lock.
\* The thread that threading.Thread(...).start() starts is at line 64.
enable(v) ==
    /\ IF v = "" \/ emuRunning
       THEN /\ lastEmuCall' = [op |-> "enable", arg |-> v, result |-> FALSE]
            /\ UNCHANGED <<emuRunning, emuVin, stopEvent, cycle>>
       ELSE /\ \E t \in CycleThreads : cycle[t].pc = "unborn"
            /\ emuVin' = v
            /\ emuRunning' = TRUE
            /\ stopEvent' = FALSE
            /\ cycle' = [cycle EXCEPT ![NextThread].pc = "test"]
            /\ lastEmuCall' = [op |-> "enable", arg |-> v, result |-> TRUE]

\* Lines 39-48: disable(), under _lock.
disable ==
    /\ IF ~emuRunning
       THEN /\ lastEmuCall' = [op |-> "disable", arg |-> "", result |-> FALSE]
            /\ UNCHANGED <<emuRunning, stopEvent>>
       ELSE /\ emuRunning' = FALSE
            /\ stopEvent' = TRUE
            /\ lastEmuCall' = [op |-> "disable", arg |-> "", result |-> TRUE]
    /\ UNCHANGED <<emuVin, cycle>>

\* Line 65: while not _stop_event.is_set(), read without the lock; the
\* thread ends when the event is set.
CycleTest(t) ==
    /\ cycle[t].pc = "test"
    /\ cycle' = [cycle EXCEPT ![t].pc = IF stopEvent THEN "dead" ELSE "read"]
    /\ UNCHANGED <<emuRunning, emuVin, stopEvent, lastEmuCall>>

\* Lines 66-70: the thread copies _vin and _running under _lock and ends
\* when _running is false.
CycleRead(t) ==
    /\ cycle[t].pc = "read"
    /\ cycle' = [cycle EXCEPT ![t].vin = emuVin,
                              ![t].running = emuRunning,
                              ![t].pc = IF emuRunning THEN "publish" ELSE "dead"]
    /\ UNCHANGED <<emuRunning, emuVin, stopEvent, lastEmuCall>>

\* Lines 72-80: _publish(topic, payload, vin) and tick += 1.
CyclePublish(t) ==
    /\ cycle[t].pc = "publish"
    /\ cycle' = [cycle EXCEPT ![t].tick = (@ + 1) % TickPeriod,
                              ![t].pc = "wait"]
    /\ UNCHANGED <<emuRunning, emuVin, stopEvent, lastEmuCall>>

\* Line 81: _stop_event.wait(5.0) returns when the event is set or when the
\* five seconds are over.
CycleWait(t) ==
    /\ cycle[t].pc = "wait"
    /\ cycle' = [cycle EXCEPT ![t].pc = "test"]
    /\ UNCHANGED <<emuRunning, emuVin, stopEvent, lastEmuCall>>

\* Lines 62-81: _run_cycle in thread t.
RunCycle(t) ==
    \/ CycleTest(t)
    \/ CycleRead(t)
    \/ CyclePublish(t)
    \/ CycleWait(t)

EmuNext ==
    /\ \/ \E v \in Vins : enable(v)
       \/ disable
       \/ \E t \in CycleThreads : RunCycle(t)
    /\ UNCHANGED <<soloVars, pairVars, cfgVars, mqttVars, reqVars>>

\* The server's start as the emulator sees it; the terminal's gate and
\* channel library decide nothing here and are fixed.
EmuStart ==
    /\ Init
    /\ configured
    /\ recvContract = "none_is_closed"

\* The specification of the claims about the emulator.
EmulatorSpec == EmuStart /\ [][EmuNext]_vars

\* Lines 56-59: is_running().
is_running == emuRunning

\* The same with cycle threads that take their steps: every call in
\* _run_cycle returns (the lock is held for a few statements at a time,
\* _stop_event.wait returns after five seconds at the latest).  The requests
\* that call enable and disable owe nothing.
CycleStep ==
    /\ \E t \in CycleThreads : RunCycle(t)
    /\ UNCHANGED <<soloVars, pairVars, cfgVars, mqttVars, reqVars>>

EmulatorFairSpec == EmuStart /\ [][EmuNext]_vars /\ WF_vars(CycleStep)

\* ------------------------------------------ the MQTT connection's operations
\* A thread is alive from its start to the end of _reconnect_loop.
ReconnectAlive(t) == reconnect[t].pc \notin {"unborn", "dead"}

\* _reconnect_thread: the thread started last, 0 for None.
CurrentReconnectThread ==
    IF \A t \in ReconnectThreads : reconnect[t].pc = "unborn" THEN 0
    ELSE CHOOSE t \in ReconnectThreads :
             /\ reconnect[t].pc # "unborn"
             /\ \A u \in ReconnectThreads : u > t => reconnect[u].pc = "unborn"

\* The thread object the next threading.Thread(...) makes, 0 when the run
\* has made them all.
NextReconnectThread ==
    IF \A t \in ReconnectThreads : reconnect[t].pc # "unborn" THEN 0
    ELSE CHOOSE t \in ReconnectThreads :
             /\ reconnect[t].pc = "unborn"
             /\ \A u \in ReconnectThreads : u < t => reconnect[u].pc # "unborn"

\* _ensure_reconnect_thread (lines 70-82) has to start a thread.
NeedsReconnectThread ==
    \/ CurrentReconnectThread = 0
    \/ ~ReconnectAlive(CurrentReconnectThread)

\* Lines 70-82: nothing when the thread is alive, else the event is cleared
\* and a new thread starts at the top of _reconnect_loop.
EnsureReconnectThread ==
    IF NeedsReconnectThread
    THEN /\ mqttStop' = FALSE
         /\ reconnect' = [reconnect EXCEPT ![NextReconnectThread] =
                              [pc |-> "test", backoff |-> BackoffStart]]
    ELSE UNCHANGED <<mqttStop, reconnect>>

\* The servers and ports a caller passes.
Servers == {"", "broker"}
Ports == {0, 1883}

\* connect (lines 115-143).  raises: connect_async or loop_start raised.
connect(server, port, raises) ==
    /\ NeedsReconnectThread => NextReconnectThread # 0
    /\ IF server = "" \/ port <= 0
       THEN /\ lastMqttCall' = [op |-> "connect", result |-> FALSE]
            /\ UNCHANGED <<mqttStop, client, loop_running, connected, link,
                           reconnect>>
       ELSE IF raises
       THEN /\ client' = TRUE
            /\ connected' = FALSE
            /\ lastMqttCall' = [op |-> "connect", result |-> FALSE]
            /\ UNCHANGED <<mqttStop, loop_running, link, reconnect>>
       ELSE /\ client' = TRUE
            /\ link' = IF link = "up" THEN "up" ELSE "pending"
            /\ loop_running' = TRUE
            /\ EnsureReconnectThread
            /\ lastMqttCall' = [op |-> "connect", result |-> TRUE]
            /\ UNCHANGED connected

\* disconnect (lines 146-162).
disconnect ==
    /\ mqttStop' = TRUE
    /\ IF ~client
       THEN /\ lastMqttCall' = [op |-> "disconnect", result |-> FALSE]
            /\ UNCHANGED <<client, loop_running, connected, link, reconnect>>
       ELSE /\ link' = "down"
            /\ loop_running' = FALSE
            /\ connected' = FALSE
            /\ lastMqttCall' = [op |-> "disconnect", result |-> TRUE]
            /\ UNCHANGED <<client, reconnect>>

\* status()["connected"] (lines 165-182).
status == connected

\* Line 88: while not _stop_event.is_set().
ReconnectTest(t) ==
    /\ reconnect[t].pc = "test"
    /\ reconnect' = [reconnect EXCEPT ![t].pc =
                         IF mqttStop THEN "dead" ELSE "read"]
    /\ UNCHANGED <<mqttStop, client, loop_running, connected, link,
                   lastMqttCall>>

\* Lines 89-92: the reading of connected under the lock; when connected the
\* backoff goes back to its start.
ReconnectRead(t) ==
    /\ reconnect[t].pc = "read"
    /\ reconnect' = [reconnect EXCEPT ![t] =
                         IF connected
                         THEN [pc |-> "sleep", backoff |-> BackoffStart]
                         ELSE [pc |-> "ensure", backoff |-> @.backoff]]
    /\ UNCHANGED <<mqttStop, client, loop_running, connected, link,
                   lastMqttCall>>

\* Lines 93-94 and 103: time.sleep(1.0), then the top of the loop.
ReconnectSleep(t) ==
    /\ reconnect[t].pc = "sleep"
    /\ reconnect' = [reconnect EXCEPT ![t].pc = "test"]
    /\ UNCHANGED <<mqttStop, client, loop_running, connected, link,
                   lastMqttCall>>

\* Lines 97-100: _ensure_client, and loop_start when _loop_running is false.
ReconnectEnsure(t) ==
    /\ reconnect[t].pc = "ensure"
    /\ client' = TRUE
    /\ loop_running' = TRUE
    /\ reconnect' = [reconnect EXCEPT ![t].pc = "attempt"]
    /\ UNCHANGED <<mqttStop, connected, link, lastMqttCall>>

\* Line 106: backoff = min(backoff * 2.0, 60.0).
BackoffUncapped(b) == b * 2

BackoffAfterFailure(b) == IF b * 2 < BackoffCap THEN b * 2 ELSE BackoffCap

\* Lines 101-102 and 104: client.reconnect() returns, the backoff goes back
\* to its start; or it raises.
ReconnectAttempt(t) ==
    /\ reconnect[t].pc = "attempt"
    /\ \/ /\ link' = "pending"
          /\ reconnect' = [reconnect EXCEPT ![t] =
                               [pc |-> "sleep", backoff |-> BackoffStart]]
       \/ /\ link' = "down"
          /\ reconnect' = [reconnect EXCEPT ![t].pc = "backoff"]
    /\ UNCHANGED <<mqttStop, client, loop_running, connected, lastMqttCall>>

\* Lines 105-106: time.sleep(backoff), then the doubling.
ReconnectBackoff(t) ==
    /\ reconnect[t].pc = "backoff"
    /\ reconnect' = [reconnect EXCEPT ![t] =
                         [pc |-> "test",
                          backoff |-> BackoffAfterFailure(@.backoff)]]
    /\ UNCHANGED <<mqttStop, client, loop_running, connected, link,
                   lastMqttCall>>

\* _reconnect_loop (lines 85-106), one step of thread t.
ReconnectLoop(t) ==
    \/ ReconnectTest(t)
    \/ ReconnectRead(t)
    \/ ReconnectSleep(t)
    \/ ReconnectEnsure(t)
    \/ ReconnectAttempt(t)
    \/ ReconnectBackoff(t)

\* _on_connect (lines 35-43), called by the running network loop when the
\* broker accepts the pending connection.
OnConnect ==
    /\ loop_running
    /\ link = "pending"
    /\ link' = "up"
    /\ connected' = TRUE
    /\ UNCHANGED <<mqttStop, client, loop_running, reconnect, lastMqttCall>>

\* _on_disconnect (lines 46-53), called by the running network loop when
\* the connection is lost or refused.
OnDisconnect ==
    /\ loop_running
    /\ link \in {"pending", "up"}
    /\ link' = "down"
    /\ connected' = FALSE
    /\ UNCHANGED <<mqttStop, client, loop_running, reconnect, lastMqttCall>>

MqttNext ==
    /\ \/ \E server \in Servers, port \in Ports, raises \in BOOLEAN :
              connect(server, port, raises)
       \/ disconnect
       \/ \E t \in ReconnectThreads : ReconnectLoop(t)
       \/ OnConnect
       \/ OnDisconnect
    /\ UNCHANGED <<soloVars, pairVars, cfgVars, emuVars, reqVars>>

\* The start of the MQTT specification: one fixed terminal session state.
MqttStart ==
    /\ Init
    /\ configured
    /\ recvContract = "none_is_closed"

MqttSpec == MqttStart /\ [][MqttNext]_vars

\* ------------------------------------------------------------- the claims
\* The step of ReceiveAndDispatch in which ws.receive returned a message.
DispatchStep == pc = "recv" /\ wsIn # <<>> /\ wsIn' = Tail(wsIn)

\* The characters of the shell output frames sent on the channel, in order.
RECURSIVE DataOf(_)
DataOf(out) ==
    IF out = <<>> THEN <<>>
    ELSE (IF out[1].op = "data" THEN out[1].data ELSE <<>>) \o DataOf(Tail(out))

\* What the channel carries after a complete refusal.
RefusalTrace == <<Sent("refuse1", <<>>), Sent("refuse2", <<>>), Sent("close", <<>>)>>

\* C1: when terminal_allowed() returned false the handler never calls
\* pty.fork (no child, no terminal handle), what it does on the channel is
\* the first refusal line, the second, then the close, in that order and
\* nothing else, and when it has returned all three are there.
C1_RefusalSpawnsNothing ==
    gate = "denied" =>
        /\ spawnCount = 0
        /\ child = "none"
        /\ fd = "none"
        /\ pc \in {"refuse1", "refuse2", "refuse_close", "done", "raised"}
        /\ IsPrefix(wsOut, RefusalTrace)
        /\ (pc = "done" => wsOut = RefusalTrace)

C1_Witness ==
    gate = "denied" /\ pc = "done" /\ wsOut = RefusalTrace /\ spawnCount = 0

\* C2: in every state the characters sent on the channel as shell output
\* are a prefix of the shell's output decoded as UTF-8 with replacement.
C2_SentIsPrefixOfShellOutput ==
    IsPrefix(DataOf(wsOut), Utf8Decode(shellWritten))

\* C3: a session whose channel stayed open does not reach CLOSED with shell
\* output still unread in the terminal.
C3_NoOutputLostAtClose ==
    (pc = "done" /\ ~peerClosed) => ptyOut = <<>>

\* The bytes of a frame as keystroke data.
BytesOf(msg) == IF msg.kind = "text" THEN Utf8Encode(msg.body) ELSE msg.body

\* A text frame that is a JSON object whose "type" is "resize".
IsResizeMessage(msg) ==
    /\ msg.kind = "text"
    /\ StartsWithBrace(msg.body)
    /\ JsonLoads(msg.body).ok
    /\ DictGet(JsonLoads(msg.body).obj, StrType, JNone) = JStr(StrResize)

\* A text frame that begins with "{" and fails JSON parsing.
FailsJson(msg) ==
    /\ msg.kind = "text"
    /\ StartsWithBrace(msg.body)
    /\ ~JsonLoads(msg.body).ok

\* A frame of raw input: binary, text that does not begin with "{", or
\* text that begins with "{" and is no JSON.
IsRawFrame(msg) ==
    \/ msg.kind = "bytes"
    \/ ~StartsWithBrace(msg.body)
    \/ FailsJson(msg)

\* C4: every message received in the loop that is no resize instruction
\* is handed to os.write as keystroke data, whatever its shape.
C4_NonResizeIsWritten ==
    [][(DispatchStep /\ ~IsResizeMessage(Head(wsIn)))
         => writeCalls' = Append(writeCalls, BytesOf(Head(wsIn)))]_vars

C6_RawFramesWrittenInFull ==
    [][IF DispatchStep /\ IsRawFrame(Head(wsIn))
       THEN ptyIn' = ptyIn \o BytesOf(Head(wsIn))
       ELSE ptyIn' = ptyIn]_vars

\* C7: receiving {"type":"resize","rows":40,"cols":100} issues exactly one
\* window-size update, with rows 40 and cols 100, writes nothing to the
\* terminal, sends nothing on the channel, leaves the shell output waiting
\* in the terminal as it is, and the loop goes on.
C7_ResizeIsOneUpdate ==
    [][(DispatchStep /\ Head(wsIn) = FrameResize)
         => /\ resizeCalls' = Append(resizeCalls, <<40, 100>>)
            /\ UNCHANGED <<writeCalls, ptyIn, wsOut, ptyOut, shellWritten>>
            /\ pc' \in ActivePcs]_vars

\* A resize arrived after input was written and output was forwarded.
C7_Witness ==
    /\ resizeCalls = << <<40, 100>> >>
    /\ Len(writeCalls) = 1
    /\ DataOf(wsOut) # <<>>
    /\ wsIn = <<>>
    /\ pc \in ActivePcs

\* C8: once the child has exited, the loop's next child-exit check leaves
\* the loop for teardown, and the session reaches CLOSED, whatever output
\* or inbound message is still pending.
C8_ChildExitEndsSession ==
    /\ [][(pc = "waitpid" /\ child = "zombie" /\ pc' # pc) => pc' = "close_fd"]_vars
    /\ ((child = "zombie" /\ pc \in ActivePcs) ~> pc = "done")

\* The session ended by the child-exit check with output unread and an
\* inbound message undelivered.
C8_Witness ==
    /\ pc = "done"
    /\ exitVia = "child_exit"
    /\ ptyOut # <<>>
    /\ wsIn # <<>>

\* C9: when the peer has closed the channel during the loop, the session
\* reaches CLOSED, however ws.receive reports the closure.
C9_PeerCloseEndsSession ==
    (peerClosed /\ pc \in ActivePcs) ~> pc = "done"

\* C10: a step in which the terminal read fails or returns end-of-file, or
\* in which os.write raises, leaves the loop for teardown.
C10_TerminalFailureLeavesActive ==
    [][(\/ (pc = "read" /\ ptyOut = <<>> /\ pc' # pc)
        \/ (/\ DispatchStep
            /\ writeCalls' # writeCalls
            /\ writeCalls'[Len(writeCalls')] # <<>>
            /\ ptyIn' = ptyIn))
         => pc' \in ClosingPcs]_vars

\* C11: the session leaves ACTIVE only on child exit, terminal error/EOF or
\* channel close: with the child running, the handle open, the peer still
\* connected, an iteration whose select found no output and whose
\* ws.receive found no message within its timeout stays in the loop.
C11_IdleIterationStaysActive ==
    [][(/\ pc = "recv"
        /\ ~rlist
        /\ wsIn = <<>>
        /\ ~peerClosed
        /\ child = "running"
        /\ fd = "open") => pc' \in ActivePcs]_vars

\* The spawn failed: pty.fork raised, or os.execvp raised in the child.
SpawnFailed == exitVia = "spawn_error" \/ childProc \in {"except", "returned"}

\* C12: when the spawn fails, at the fork or at the exec of the shell, the
\* session never enters the loop of _bridge_pty_to_websocket, and once the
\* handler has returned an error message has gone out on the channel (to a
\* peer that is still there).
C12_SpawnFailureNeverActive ==
    SpawnFailed =>
        /\ pc \notin ActivePcs
        /\ (pc = "done" /\ ~peerClosed) =>
               \E i \in 1..Len(wsOut) : wsOut[i].op \in {"error", "child_error"}

\* C13: a session that spawned a child is CLOSED only with its terminal
\* handle released and its child reaped, whichever way it ended.
C13_ChildReapedAtClosed ==
    (pc = "done" /\ child # "none") => (fd = "closed" /\ child = "reaped")

\* C14: for a session whose spawn succeeded, the handler's finally block
\* runs once, and in it os.close(master_fd) and os.waitpid(pid, WNOHANG) are
\* each called once: none of it before the loop is left, all of it when the
\* handler has returned.  (The handler is the parent process; what the
\* forked child does with the same code is childProc.)
C14_TeardownOnce ==
    child # "none" =>
        /\ teardown.runs <= 1 /\ teardown.closes <= 1 /\ teardown.reaps <= 1
        /\ pc \in ActivePcs =>
               /\ teardown.runs = 0 /\ teardown.closes = 0 /\ teardown.reaps = 0
        /\ pc = "done" =>
               /\ teardown.runs = 1 /\ teardown.closes = 1 /\ teardown.reaps = 1

C14_Witness ==
    /\ pc = "done"
    /\ exitVia = "child_exit"
    /\ teardown.runs = 1 /\ teardown.closes = 1 /\ teardown.reaps = 1

\* The frames the handler itself put on the channel (the parent process).
ServerFrames(out) == SelectSeq(out, LAMBDA m : m.op # "child_error")

\* The handler uses the channel in this step: a send or close that went
\* out, or a ws.receive.
ChannelStep ==
    \/ ServerFrames(wsOut') # ServerFrames(wsOut)
    \/ pc = "recv" /\ pc' # "recv"

\* C15: once the finally block has begun the handler neither sends on nor
\* receives from the channel; the "Terminal error" message goes out before.
C15_NoChannelUseInTeardown ==
    [][ChannelStep => (teardown.runs = 0 /\ pc \notin ClosingPcs \cup {"done"})]_vars

C15_Witness ==
    /\ pc = "done"
    /\ teardown.runs = 1
    /\ exitVia = "spawn_error"
    /\ wsOut = <<Sent("error", <<>>)>>

\* The session's state, read off the handler: CLOSED when the handler has
\* ended; SPAWNING until pty.fork has returned a child (the finally block
\* after a failed fork has nothing to release and is the way to CLOSED);
\* CLOSING in the finally block of a session with a handle; ACTIVE between.
SessionState ==
    IF pc \in {"done", "raised"} THEN "CLOSED"
    ELSE IF child = "none" THEN "SPAWNING"
    ELSE IF pc \in ClosingPcs THEN "CLOSING"
    ELSE "ACTIVE"

\* C17: the state moves only SPAWNING->ACTIVE on a successful spawn,
\* SPAWNING->CLOSED on refusal or spawn failure, ACTIVE->CLOSING and
\* CLOSING->CLOSED; CLOSING always reaches CLOSED; in CLOSED the handler
\* spawns nothing and touches neither the terminal nor the channel.
C17_StateMachine ==
    /\ [][SessionState' # SessionState =>
            \/ SessionState = "SPAWNING" /\ SessionState' = "ACTIVE"
            \/ /\ SessionState = "SPAWNING" /\ SessionState' = "CLOSED"
               /\ (gate = "denied" \/ exitVia = "spawn_error")
            \/ SessionState = "ACTIVE" /\ SessionState' = "CLOSING"
            \/ SessionState = "CLOSING" /\ SessionState' = "CLOSED"]_vars
    /\ [](SessionState = "ACTIVE" => ~SpawnFailed)
    /\ (SessionState = "CLOSING" ~> SessionState = "CLOSED")
    /\ [][SessionState = "CLOSED" =>
            /\ SessionState' = "CLOSED"
            /\ UNCHANGED <<spawnCount, fd, ptyOut, writeCalls, ptyIn,
                           resizeCalls, wsIn>>
            /\ ServerFrames(wsOut') = ServerFrames(wsOut)]_vars

\* C18: no error raised in the loop leaves the handler: from a loop position
\* the handler goes on in the loop or to its finally block, an exception
\* leaves terminal_websocket only from the refusal branch, before any spawn,
\* and a handler that spawned ends by returning, its finally block done.
C18_LoopErrorsStayInside ==
    /\ pc = "raised" => (gate = "denied" /\ child = "none")
    /\ (pc = "done" /\ child # "none") => teardown.runs = 1

\* A loop error of each kind has been handled and the handler has returned:
\* a swallowed os.write error, a logged resize error, and the ws.send
\* failure that broke the loop.
C18_Witness ==
    /\ pc = "done"
    /\ exitVia = "bridge_error"
    /\ resizeErrors > 0
    /\ writeCalls # <<>>
    /\ ptyIn = <<>>

\* C19: the only failure messages of the server are the refusal lines, sent
\* after a refused permission check, and the "Terminal error" line, sent
\* after a failed spawn; a session that ends any other way has sent nothing
\* but forwarded shell output.
C19_FailureMessagesOnlyForRefusalAndSpawn ==
    \A i \in 1..Len(wsOut) :
        /\ wsOut[i].op \in {"refuse1", "refuse2", "close"} => gate = "denied"
        /\ wsOut[i].op = "error" => exitVia = "spawn_error"
        /\ wsOut[i].op = "child_error" => SpawnFailed

\* C20: a window-size update that fails, in struct.pack (rows -1 here) or
\* in the ioctl, is logged and nothing more: no ioctl goes out for values
\* that do not pack, nothing is written to the terminal or sent on the
\* channel, the handle and the child are as before, and the loop goes on.
C20_ResizeFailureIsLoggedOnly ==
    [][/\ (DispatchStep /\ Head(wsIn) = FrameResizeNeg)
            => (resizeErrors' = resizeErrors + 1 /\ resizeCalls' = resizeCalls)
       /\ resizeErrors' # resizeErrors
            => /\ DispatchStep
               /\ IsResizeMessage(Head(wsIn))
               /\ resizeErrors' = resizeErrors + 1
               /\ pc' \in ActivePcs
               /\ fd' = "open"
               /\ UNCHANGED <<writeCalls, ptyIn, wsOut, ptyOut, shellWritten,
                              child, fd, exitVia>>]_vars

\* A session that logged a failed pack, and in which input was written to
\* the terminal and output forwarded to the channel, still in its loop.
C20_Witness ==
    /\ resizeErrors = 1
    /\ resizeCalls = <<>>
    /\ Len(writeCalls) = 1
    /\ ptyIn # <<>>
    /\ DataOf(wsOut) # <<>>
    /\ wsIn = <<>>
    /\ pc \in ActivePcs

\* C16: with two sessions running at once, every data frame on a session's
\* channel holds output of that session's shell, every byte put into its
\* terminal and every window size set on it came from its own channel, its
\* descriptor is closed by its own handler alone, and while both handlers
\* hold a descriptor the two numbers differ.
C16_SessionsIsolated ==
    /\ \A s \in Sessions :
        /\ \A f \in chans[s].out :
              \A i \in 1..Len(f.data) : f.data[i] = ShellByte(s)
        /\ ptys[s].inp \subseteq {PeerByte(s)}
        /\ ptys[s].win \subseteq {PeerWinsize(s)}
        /\ ptys[s].closedBy \subseteq {s}
    /\ (\A s \in Sessions : sess[s].pc \in {"read", "recv"})
          => MasterFd("A") # MasterFd("B")

\* Both sessions are in their loops on the two descriptors; one has
\* forwarded its shell's output and applied its peer's resize, the other
\* has had its peer's input written.
C16_Witness ==
    /\ \A s \in Sessions : sess[s].pc \in {"read", "recv"}
    /\ chans["A"].out = {Sent("data", <<ShellByte("A")>>)}
    /\ ptys["A"].win = {PeerWinsize("A")}
    /\ ptys["B"].inp = {PeerByte("B")}

\* C21: the steps of the finally block fail one by one without stopping it:
\* when os.close or os.waitpid has raised, the handler is still in the
\* finally block or has returned from it, nothing has left the handler, and a
\* handler that has returned has made its os.waitpid call whatever os.close
\* did.
C21_TeardownStepsFaultTolerant ==
    /\ teardown.errors > 0 => pc \in {"reap", "done"}
    /\ (pc = "done" /\ child # "none") => teardown.reaps = 1

C21_Witness ==
    /\ pc = "done"
    /\ teardown.errors = 2
    /\ teardown.reaps = 1
    /\ fd = "open"

\* The handler of session s runs its finally block in this step, for a child
\* that its loop's child-exit check has already reaped.
TeardownAfterLoopReap(s) ==
    /\ sess[s].pc = "finally"
    /\ sess'[s].pc = "done"
    /\ sess[s].pid # NoPid
    /\ s \in ptys[s].reapedBy

\* C22: the finally block, run for a child that the loop's child-exit check
\* has already reaped, does nothing to any other session's process or
\* descriptor: their shells, their ptys and their descriptors are as before.
C22_TeardownAfterReapTouchesNothingElse ==
    [][\A s \in Sessions :
          TeardownAfterLoopReap(s) =>
              \A q \in Sessions \ {s} :
                  /\ ptys'[q] = ptys[q]
                  /\ \A n \in FdNumbers : fdTable[n] = q => fdTable'[n] = q]_vars

\* C23: a handler that has entered its finally block returns from it, with
\* the child still running or not: os.waitpid with WNOHANG does not wait.
C23_TeardownTerminates ==
    (pc \in ClosingPcs) ~> (pc = "done")

C23_Witness ==
    /\ pc = "done"
    /\ child = "running"
    /\ teardown.reaps = 1

\* Inbound frames the loop has taken from the channel, and bytes of shell
\* output it has taken from the terminal.
FramesHandled == nSent - Len(wsIn)

BytesRead == Len(shellWritten) - Len(ptyOut)

\* One step of the loop that does not end the session goes from the
\* child-exit check to the readiness check, from there to the read or
\* straight to the receive attempt, from the read to the receive attempt, and
\* from the receive attempt to the next child-exit check.
IterationStep ==
    /\ (pc = "waitpid" /\ pc' \in ActivePcs) => pc' \in {"waitpid", "select"}
    /\ (pc = "select" /\ pc' \in ActivePcs) => pc' \in {"select", "read", "recv"}
    /\ (pc = "read" /\ pc' \in ActivePcs) => pc' \in {"read", "recv"}
    /\ (pc = "recv" /\ pc' \in ActivePcs) => pc' \in {"recv", "waitpid"}

\* C24: neither direction starves the other.  Every iteration that does not
\* end the session makes one readiness check and one receive attempt after
\* its child-exit check; an inbound frame that is waiting is taken from the
\* channel, and shell output that is waiting is read from the terminal,
\* whatever the other direction carries, unless the session ends.
C24_NoStarvation ==
    /\ [][IterationStep]_vars
    /\ \A h \in 0..ProgressInbound :
          (pc \in ActivePcs /\ wsIn # <<>> /\ FramesHandled = h)
              ~> (FramesHandled > h \/ pc \notin ActivePcs)
    /\ \A b \in 0..ProgressShellBytes :
          (pc \in ActivePcs /\ ptyOut # <<>> /\ BytesRead = b)
              ~> (BytesRead > b \/ pc \notin ActivePcs)

C24_Witness ==
    /\ pc = "read"
    /\ wsIn # <<>>
    /\ ptyOut # <<>>
    /\ FramesHandled > 0

\* C25: one session is one permission check, then at most one spawn, at most
\* one bridge loop and then the finally block, in that order.  The answer of
\* the check, once given, is kept whatever terminal_allowed() would answer
\* later; nothing is spawned before the check allowed it or after the finally
\* block; the loop is entered from the bridge's set-up only, and the finally
\* block is entered when the loop or the spawn is over.
C25_OneCheckThenOneSessionInOrder ==
    [][/\ gate # "unchecked" => gate' = gate
       /\ gate' # gate => pc = "start"
       /\ spawnCount' # spawnCount =>
              /\ spawnCount = 0 /\ spawnCount' = 1
              /\ gate = "allowed" /\ teardown.runs = 0
       /\ (pc \notin ActivePcs /\ pc' \in ActivePcs) =>
              /\ pc = "setnb" /\ spawnCount = 1 /\ teardown.runs = 0
       /\ teardown.runs' # teardown.runs =>
              /\ teardown.runs = 0 /\ spawnCount = 1
              /\ pc' \notin ActivePcs]_vars

C25_Witness ==
    /\ pc \in ActivePcs
    /\ gate = "allowed"
    /\ ~configured
    /\ wsOut # <<>>

\* A password hash is stored in config.json.
HashStored(cf) == cf.exists /\ cf.webui_password # NoSecret

\* This step is a call of terminal_allowed().
TerminalAllowedCall ==
    /\ configCalls' = configCalls + 1
    /\ lastCall'.op = "terminal_allowed"

\* C26: terminal_allowed() is a pure query: a call of it leaves the key file
\* and the configuration file as they were, whatever state they were in
\* (missing included), and returns true exactly when a password hash is
\* stored.
C26_TerminalAllowedIsPureQuery ==
    [][TerminalAllowedCall =>
          /\ keyFile' = keyFile
          /\ configFile' = configFile
          /\ lastCall'.result =
                 (IF HashStored(configFile) THEN "true" ELSE "false")]_vars

\* The data frame this step put on the channel, if it put one.
ForwardedNow ==
    /\ Len(wsOut') = Len(wsOut) + 1
    /\ wsOut'[Len(wsOut')].op = "data"

\* C27: an iteration takes its steps in the order child-exit check,
\* readiness wait, read and forward, receive and dispatch.  Output is read
\* and forwarded in the read step alone: one os.read of at least one and at
\* most ReadSize bytes, sent as one data frame that is not empty.  Inbound
\* frames are taken in the receive step alone, one at a time.
C27_IterationOrderAndOneChunk ==
    [][/\ IterationStep
       /\ Len(ptyOut') < Len(ptyOut) =>
              /\ pc = "read"
              /\ Len(ptyOut) - Len(ptyOut') <= ReadSize
       /\ ForwardedNow =>
              /\ pc = "read"
              /\ wsOut'[Len(wsOut')].data # <<>>
              /\ Len(wsOut'[Len(wsOut')].data) <= ReadSize
              /\ Len(ptyOut') < Len(ptyOut)
       /\ wsIn' # wsIn /\ Len(wsIn') <= Len(wsIn) =>
              /\ pc = "recv"
              /\ wsIn' = Tail(wsIn)]_vars

C27_Witness ==
    /\ pc = "recv"
    /\ ptyOut # <<>>
    /\ wsIn # <<>>
    /\ wsOut # <<>>
    /\ wsOut[Len(wsOut)].op = "data"
    /\ Len(wsOut[Len(wsOut)].data) = ReadSize

\* C28: after the fork only the parent uses the channel and goes on in the
\* server's code: the child is the shell or is gone.  When its exec has
\* failed it has sent nothing on the channel and has not gone through the
\* handler's except and finally blocks back into the server.
C28_ChildNeverRunsServerCode ==
    /\ childProc \in {"none", "exec", "shell"}
    /\ \A i \in 1..Len(wsOut) : wsOut[i].op # "child_error"

\* The handler operates on the terminal in this step: the fcntl calls of the
\* set-up, the select, the os.read, an os.write or a resize ioctl.
TerminalOp ==
    \/ pc \in {"setnb", "select", "read"} /\ pc' # pc
    \/ writeCalls' # writeCalls
    \/ resizeCalls' # resizeCalls

\* C29: master_fd is released at most once, by the os.close of the finally
\* block, and every operation on the terminal comes before that call: the
\* descriptor is open when the handler operates on it, and os.close has not
\* been called.
C29_NoUseAfterRelease ==
    /\ [](teardown.closes <= 1)
    /\ [][TerminalOp => (fd = "open" /\ teardown.closes = 0)]_vars

C29_Witness ==
    /\ pc = "done"
    /\ fd = "closed"
    /\ teardown.closes = 1
    /\ writeCalls # <<>>
    /\ resizeCalls # <<>>
    /\ wsOut # <<>>

\* Thread t begins another publishing iteration in this step: it has passed
\* the tests of lines 65 and 69.
BeginsIteration(t) == cycle[t].pc = "read" /\ cycle'[t].pc = "publish"

\* C30: at most one cycle thread is alive and publishing, however enable()
\* and disable() interleave: once enable() has started a later cycle thread,
\* no earlier one begins another publishing iteration beside it.
C30_OneCycleThread ==
    [][\A t \in CycleThreads :
          BeginsIteration(t) =>
              \A u \in CycleThreads : u > t => cycle[u].pc = "unborn"]_vars

\* The cycle threads that have been started and have not ended.
AliveThreads == {t \in CycleThreads : cycle[t].pc \notin {"unborn", "dead"}}

\* The threads started in this step.
StartedNow ==
    {t \in CycleThreads : cycle[t].pc = "unborn" /\ cycle'[t].pc # "unborn"}

\* C31: enable(vin) returns true exactly when vin is not empty and the
\* emulator is not running, and then starts one cycle thread; disable()
\* returns true exactly when the emulator was running, and is_running() is
\* false after it; a call that returns false changes nothing.  After a
\* disable() with no enable() after it every cycle thread ends.
C31_EnableDisableContract ==
    /\ [][lastEmuCall' # lastEmuCall =>
            /\ lastEmuCall'.op = "enable" =>
                   /\ lastEmuCall'.result =
                          (lastEmuCall'.arg # "" /\ ~emuRunning)
                   /\ lastEmuCall'.result =>
                          /\ Cardinality(StartedNow) = 1
                          /\ is_running'
                          /\ emuVin' = lastEmuCall'.arg
            /\ lastEmuCall'.op = "disable" =>
                   /\ lastEmuCall'.result = emuRunning
                   /\ ~is_running'
            /\ ~lastEmuCall'.result =>
                   UNCHANGED <<emuRunning, emuVin, stopEvent, cycle>>]_vars
    /\ [][StartedNow # {} =>
              (lastEmuCall'.op = "enable" /\ lastEmuCall'.result)]_vars
    /\ (~emuRunning) ~> (emuRunning \/ AliveThreads = {})

C31_Witness ==
    /\ lastEmuCall = [op |-> "disable", arg |-> "", result |-> TRUE]
    /\ ~is_running
    /\ AliveThreads = {}
    /\ \E t \in CycleThreads : cycle[t].pc = "dead" /\ cycle[t].tick > 0

\* C36: the backoff of the reconnect loop always lies between 1 and 60: a
\* thread starts with 1, a failed attempt doubles it up to the cap of 60, and
\* a successful attempt or a reading of connected = true sets it back to 1;
\* no other step changes it.
C36_BackoffRange ==
    [][\A t \in ReconnectThreads :
          LET old == reconnect[t]
              new == reconnect'[t]
          IN  /\ new.backoff >= 1
              /\ new.backoff <= 60
              /\ (old.pc = "unborn" /\ new.pc # "unborn") => new.backoff = 1
              /\ (old.pc = "backoff" /\ new.pc # "backoff") =>
                     /\ old.backoff * 2 <= 60 => new.backoff = old.backoff * 2
                     /\ old.backoff * 2 > 60 => new.backoff = 60
              /\ (old.pc = "attempt" /\ new.pc = "sleep") => new.backoff = 1
              /\ (old.pc = "read" /\ new.pc = "sleep") => new.backoff = 1
              /\ new.backoff # old.backoff =>
                     \/ old.pc = "backoff"
                     \/ old.pc = "attempt" /\ new.pc = "sleep"
                     \/ old.pc = "read" /\ new.pc = "sleep"]_vars

\* A thread whose failures brought the backoff to the cap, and a later
\* thread of the same run that is back at 1 after a successful attempt.
C36_Witness ==
    \E t, u \in ReconnectThreads :
        /\ reconnect[t].backoff = 60
        /\ reconnect[t].pc \in {"test", "dead"}
        /\ reconnect[u].pc = "sleep"
        /\ reconnect[u].backoff = 1

\* C34: whenever the last call is a connect() that returned true, the stop
\* flag is clear and a reconnect loop thread is alive, from the return of
\* connect() until disconnect() is called, whatever calls came before.
C34_ConnectKeepsReconnecting ==
    (lastMqttCall.op = "connect" /\ lastMqttCall.result) =>
        /\ ~mqttStop
        /\ \E t \in ReconnectThreads : ReconnectAlive(t)

\* A step in which a reconnect thread calls client.reconnect().
ReconnectAttempted ==
    \E t \in ReconnectThreads :
        reconnect[t].pc = "attempt" /\ reconnect'[t].pc # "attempt"

\* C35: from the return of disconnect() to the next connect() no reconnect
\* thread makes a reconnect attempt, none starts the network loop, and
\* status() reports connected = false.
C35_QuietAfterDisconnect ==
    [][(lastMqttCall.op = "disconnect" /\ lastMqttCall' = lastMqttCall) =>
           /\ ~ReconnectAttempted
           /\ ~(~loop_running /\ loop_running')
           /\ ~status']_vars

\* The calls of complete_first_run, direct or from setup_submit, that have
\* returned true.
FirstRunsCompleted == {r \in Requests : requests[r].first_run = "true"}

\* Request r ends its call of complete_first_run in this step.
FirstRunEnds(r) ==
    requests[r].first_run = "none" /\ requests'[r].first_run # "none"

\* C32: among concurrent first-run submissions complete_first_run returns
\* true at most once; as long as no change_password runs, the stored hash is
\* the one of that call; and a call that finds a password hash stored, or
\* has a password shorter than 8 characters, returns false and leaves
\* config.json as it is.
C32_OneFirstRun ==
    /\ [](Cardinality(FirstRunsCompleted) <= 1)
    /\ [](\A r \in FirstRunsCompleted :
              (\A q \in Requests : requests[q].op # "change_password") =>
                  configFile.webui_password.hash = requests[r].password.hash)
    /\ [][\A r \in Requests :
             (/\ FirstRunEnds(r)
              /\ \/ requests[r].config.webui_password # NoSecret
                 \/ requests[r].password.len < MinPasswordLen) =>
                 /\ requests'[r].first_run = "false"
                 /\ UNCHANGED <<configFile, ssh_enabled>>]_vars

\* C33: a change that has returned successfully stays: with one
\* change_password among the requests, once it has returned true the stored
\* hash is its new hash, and with one config_set, once it has returned the
\* stored "ssh_enabled" is its value, whatever load-modify-save of another
\* request completes afterwards.
C33_NoLostUpdate ==
    \A r \in Requests :
        (/\ requests[r].pc = "done"
         /\ requests[r].result = "true"
         /\ \A q \in Requests \ {r} : requests[q].op # requests[r].op) =>
            /\ requests[r].op = "change_password" =>
                   configFile.webui_password.hash = requests[r].password.hash
            /\ requests[r].op = "config_set" =>
                   ssh_enabled = requests[r].value

=============================================================================
